---- MODULE Spec2Model ----
(***************************************************************************)
(* sync-project-mcps: discovery of per-client MCP configuration files, the *)
(* merge of their server entries, and the write-back to every client.      *)
(*                                                                         *)
(* Three specifications:                                                   *)
(*   SpecMerge  the pure functions of merge.ts (mergeConfigs, getChanges)  *)
(*              applied to bounded inputs;                                 *)
(*   SpecCodec  the serializers and readers of codex.ts and opencode.ts    *)
(*              and parseJsonc applied to bounded inputs, with the output  *)
(*              of each serializer read back;                              *)
(*   Spec       one or more invocations of the CLI (index.ts run) over a   *)
(*              bounded file system.                                       *)
(*                                                                         *)
(* JavaScript values are modelled as follows.                              *)
(*   - an optional value (undefined / null / absent key) is a sequence of  *)
(*     length 0 or 1: None, Some(v);                                       *)
(*   - an object used as an ordered dictionary (Record<string, T>) is a    *)
(*     sequence of entries with pairwise distinct keys, in insertion order;*)
(*     where names are sequences of characters, array-index names come     *)
(*     first and the name __proto__ creates no entry on assignment;        *)
(*   - strings are atoms under SpecMerge and Spec, except the top-level    *)
(*     string values of the Gemini and OpenCode documents; those, and all  *)
(*     strings under SpecCodec, are sequences of characters, so that the   *)
(*     parsers act on them character by character.                         *)
(***************************************************************************)
EXTENDS Integers, Sequences, FiniteSets, TLC

VARIABLES
    fs,        \* path -> file: the config files on disk; under SpecCodec the
               \* existing content handed to the serializer
    fs0,       \* the file system when the current run started (history)
    argv,      \* the command line: [dryRun, source]; under SpecCodec the function called
    pc,        \* position in run(), or the unit-call position under SpecMerge
    clients,   \* the ClientConfig descriptors (index.ts:119), or the unit input
    merged,    \* Option(McpConfig mapping): the merged result
    idx,       \* index of the sync loop (index.ts:188)
    exitCode,  \* Option(process exit code)
    warnings,  \* names for which mergeConfigs logged a conflict warning
    reports,   \* one [name, added, removed] per sync-loop iteration (stdout)
    stderr,    \* messages written to the error stream
    written,   \* paths given to writeFileSync in the current run, in order
    runNo,     \* number of the current run
    prevExit   \* Option(exit code of the previous run)

vars == <<fs, fs0, argv, pc, clients, merged, idx, exitCode, warnings,
          reports, stderr, written, runNo, prevExit>>

-----------------------------------------------------------------------------
(* Bounds *)

MaxClients == 2   \* SpecMerge: length of the list given to mergeConfigs
MaxFiles == 2     \* Spec: number of config files that exist initially
MaxRuns == 2      \* Spec: number of successive invocations
MaxStringLen == 2 \* SpecCodec: length of a command or of an env value
MaxArgs == 2      \* SpecCodec: length of an args array
MaxTextLen == 6   \* SpecCodec: length of a text given to parseJsonc

-----------------------------------------------------------------------------
(* Optional values and ordered dictionaries *)

None == <<>>
Some(v) == <<v>>
IsSome(o) == Len(o) > 0
Val(o) == o[1]
OrElse(o, d) == IF IsSome(o) THEN o[1] ELSE d

Range(s) == {s[i] : i \in DOMAIN s}

\* Object.keys / Object.entries order
Keys(m) == [i \in DOMAIN m |-> m[i].name]
KeySet(m) == {m[i].name : i \in DOMAIN m}
HasOwn(m, n) == \E i \in DOMAIN m : m[i].name = n
Get(m, n) == m[CHOOSE i \in DOMAIN m : m[i].name = n].server

\* obj[name] = value on an ordered dictionary: replaces in place, or appends
Put(m, n, v) ==
    IF HasOwn(m, n)
    THEN [i \in DOMAIN m |-> IF m[i].name = n THEN [name |-> n, server |-> v] ELSE m[i]]
    ELSE Append(m, [name |-> n, server |-> v])

-----------------------------------------------------------------------------
(* types.ts: McpServer *)

Srv(c, a, e) == [command |-> c, args |-> a, env |-> e]

\* Property names every object literal inherits from Object.prototype.
ObjectPrototypeKeys == {"constructor"}

\* What merged[name] evaluates to when name is not an own property but is
\* inherited: a function object, whose command, args and env are undefined.
InheritedValue == Srv(None, None, None)

-----------------------------------------------------------------------------
(* JSON.stringify on the two shapes serversEqual compares *)

RECURSIVE JoinTokens(_, _)
JoinTokens(parts, sep) ==
    IF Len(parts) = 0 THEN <<>>
    ELSE IF Len(parts) = 1 THEN parts[1]
    ELSE parts[1] \o <<sep>> \o JoinTokens(Tail(parts), sep)

JsonString(s) == <<"\"", s, "\"">>

StringifyArray(a) ==
    <<"[">> \o JoinTokens([i \in DOMAIN a |-> JsonString(a[i])], ",") \o <<"]">>

StringifyObject(e) ==
    <<"{">>
    \o JoinTokens([i \in DOMAIN e |-> JsonString(e[i][1]) \o <<":">> \o JsonString(e[i][2])], ",")
    \o <<"}">>

-----------------------------------------------------------------------------
(* merge.ts *)

serversEqual(a, b) ==
    /\ a.command = b.command
    /\ StringifyArray(OrElse(a.args, <<>>)) = StringifyArray(OrElse(b.args, <<>>))
    /\ StringifyObject(OrElse(a.env, <<>>)) = StringifyObject(OrElse(b.env, <<>>))

\* merged[name] as a condition: an own entry (always an object, so truthy) or
\* an inherited property of the object literal
MergedHas(m, n) == HasOwn(m, n) \/ n \in ObjectPrototypeKeys

\* merged[name] as a value
MergedGet(m, n) == IF HasOwn(m, n) THEN Get(m, n) ELSE InheritedValue

\* one iteration of the inner loop; acc = [mcpServers, warnings]
MergeEntry(acc, e) ==
    IF ~MergedHas(acc.mcpServers, e.name)
    THEN [acc EXCEPT !.mcpServers = Append(@, [name |-> e.name, server |-> e.server])]
    ELSE IF ~serversEqual(MergedGet(acc.mcpServers, e.name), e.server)
         THEN [acc EXCEPT !.warnings = Append(@, e.name)]
         ELSE acc

RECURSIVE MergeEntries(_, _)
MergeEntries(acc, entries) ==
    IF Len(entries) = 0 THEN acc
    ELSE MergeEntries(MergeEntry(acc, Head(entries)), Tail(entries))

\* client.config?.mcpServers, as an Option
ConfigServers(client) ==
    IF IsSome(client.config) THEN Val(client.config).mcpServers ELSE None

RECURSIVE MergeClients(_, _)
MergeClients(acc, cs) ==
    IF Len(cs) = 0 THEN acc
    ELSE IF ~IsSome(ConfigServers(Head(cs))) THEN MergeClients(acc, Tail(cs))
    ELSE MergeClients(MergeEntries(acc, Val(ConfigServers(Head(cs)))), Tail(cs))

\* returns [mcpServers |-> the merged mapping, warnings |-> the names warned about]
mergeConfigs(cs) == MergeClients([mcpServers |-> <<>>, warnings |-> <<>>], cs)

\* getChanges with the second filter testing the wrong set
getChangesWrongSet(client, m) ==
    LET currentServers == KeySet(OrElse(ConfigServers(client), <<>>))
    IN [added |-> SelectSeq(Keys(m), LAMBDA s : s \notin currentServers),
        removed |-> SelectSeq(Keys(OrElse(ConfigServers(client), <<>>)),
                              LAMBDA s : s \notin currentServers)]

getChanges(client, m) ==
    LET currentServers == KeySet(OrElse(ConfigServers(client), <<>>))
        mergedServers == KeySet(m)
    IN [added |-> SelectSeq(Keys(m), LAMBDA s : s \notin currentServers),
        removed |-> SelectSeq(Keys(OrElse(ConfigServers(client), <<>>)),
                              LAMBDA s : s \notin mergedServers)]

-----------------------------------------------------------------------------
(* Inputs of the unit specification *)

NpxXY == Srv(Some("npx"), Some(<<"x", "y">>), None)
NpxYX == Srv(Some("npx"), Some(<<"y", "x">>), None)
EnvAB == <<<<"A", "1">>, <<"B", "2">>>>
EnvBA == <<<<"B", "2">>, <<"A", "1">>>>

UnitServers ==
    { Srv(Some("npx"), None, None),
      Srv(Some("npx"), Some(<<>>), None),
      NpxXY,
      NpxYX,
      Srv(Some("npx"), None, Some(EnvAB)),
      Srv(Some("npx"), None, Some(EnvBA)),
      Srv(Some("npx"), None, Some(<<>>)),
      Srv(Some("node"), None, None),
      Srv(Some(""), None, None),
      Srv(None, None, None) }

UnitNames == {"a", "b", "constructor"}

Entry(n, d) == [name |-> n, server |-> d]

UnitMappings ==
    {<<>>}
    \cup {<<Entry(n, d)>> : n \in UnitNames, d \in UnitServers}
    \cup {<<Entry(p[1], NpxXY), Entry(p[2], d)>> :
            p \in {<<"a", "b">>, <<"b", "a">>, <<"a", "constructor">>},
            d \in {NpxXY, NpxYX}}

Descriptor(n, p, c, e) == [name |-> n, path |-> p, config |-> c, exists |-> e]

\* config: null, an object without mcpServers, or an object with a mapping
UnitConfigs ==
    {None, Some([mcpServers |-> None])}
    \cup {Some([mcpServers |-> Some(m)]) : m \in UnitMappings}

UnitDescriptors == {Descriptor("Test", "/test", c, IsSome(c)) : c \in UnitConfigs}

SeqsUpTo(S, n) == UNION {[1..k -> S] : k \in 0..n}

-----------------------------------------------------------------------------
(* SpecMerge: mergeConfigs and getChanges as called by their tests *)

Report(c, m) ==
    LET ch == getChanges(c, m)
    IN [client |-> c, merged |-> m, added |-> ch.added, removed |-> ch.removed]

InitMerge ==
    /\ pc = "unit"
    /\ clients \in SeqsUpTo(UnitDescriptors, MaxClients)
    /\ merged = None
    /\ warnings = <<>>
    /\ reports = <<>>
    /\ fs = <<>>
    /\ fs0 = <<>>
    /\ argv = [dryRun |-> FALSE, source |-> None]
    /\ idx = 0
    /\ exitCode = None
    /\ stderr = <<>>
    /\ written = <<>>
    /\ runNo = 0
    /\ prevExit = None

UnitMerge ==
    /\ pc = "unit"
    /\ LET r == mergeConfigs(clients)
       IN /\ merged' = Some(r.mcpServers)
          /\ warnings' = r.warnings
    /\ pc' = "merged"
    /\ UNCHANGED <<fs, fs0, argv, clients, idx, exitCode, reports, stderr,
                   written, runNo, prevExit>>

\* getChanges(client, m) for a client of the list, against the merged mapping
\* or against the mapping of any client of the list
UnitGetChanges ==
    /\ pc = "merged"
    /\ \E i \in DOMAIN clients :
         \E m \in {Val(merged)}
                  \cup {Val(ConfigServers(clients[j])) :
                          j \in {k \in DOMAIN clients : IsSome(ConfigServers(clients[k]))}} :
            reports' = <<Report(clients[i], m)>>
    /\ pc' = "diffed"
    /\ UNCHANGED <<fs, fs0, argv, clients, merged, idx, exitCode, warnings,
                   stderr, written, runNo, prevExit>>

NextMerge == UnitMerge \/ UnitGetChanges

SpecMerge == InitMerge /\ [][NextMerge]_vars

-----------------------------------------------------------------------------
(* parsers/jsonc.ts on a text given as a sequence of characters *)

\* the smallest index from i on whose character is in S (is not in S), or
\* the index after the end
NextIn(text, i, S) ==
    IF \E j \in i..Len(text) : text[j] \in S
    THEN CHOOSE j \in i..Len(text) :
            text[j] \in S /\ \A k \in i..(j - 1) : text[k] \notin S
    ELSE Len(text) + 1
NextNotIn(text, i, S) ==
    IF \E j \in i..Len(text) : text[j] \notin S
    THEN CHOOSE j \in i..Len(text) :
            text[j] \notin S /\ \A k \in i..(j - 1) : text[k] \in S
    ELSE Len(text) + 1

\* the inner loop of a line comment: the index of the line end, or past the end
SkipLineComment(content, i) == NextIn(content, i, {"\n", "\r"})

\* the inner loop of a block comment, entered after the opener; the index
\* after the closer (i += 2 also when no closer was found)
SkipBlockComment(content, i) ==
    LET closers == {j \in i..(Len(content) - 1) : content[j] = "*" /\ content[j + 1] = "/"}
    IN IF closers # {} THEN (CHOOSE j \in closers : \A k \in closers : j <= k) + 2
       ELSE IF i < Len(content) THEN Len(content) + 2
       ELSE i + 2

\* the while loop of parseJsonc; the characters up to the next quote or
\* slash are copied in one step
RECURSIVE StripComments(_, _, _, _)
StripComments(content, i0, inString, result0) ==
    LET i == NextIn(content, i0, {"\"", "/"})
        result == result0 \o SubSeq(content, i0, i - 1)
    IN IF i > Len(content) THEN result
       ELSE LET char == content[i]
                next == IF i < Len(content) THEN content[i + 1] ELSE "undefined"
            IN IF char = "\"" /\ (i = 1 \/ content[i - 1] # "\\")
               THEN StripComments(content, i + 1, ~inString, Append(result, char))
               ELSE IF ~inString /\ char = "/" /\ next = "/"
               THEN StripComments(content, SkipLineComment(content, i), inString, result)
               ELSE IF ~inString /\ char = "/" /\ next = "*"
               THEN StripComments(content, SkipBlockComment(content, i + 2), inString, result)
               ELSE StripComments(content, i + 1, inString, Append(result, char))

Blanks == {" ", "\t", "\n", "\r"}
IsSpace(ch) == ch \in Blanks

SkipSpaces(text, j) == NextNotIn(text, j, Blanks)

\* result.replace(/,(\s*[}\]])/g, "$1") from index i on: the regular
\* expression is applied to the whole text, string literals included
RemoveTrailingCommas(text, i) ==
    LET trailing(k) == /\ text[k] = ","
                       /\ SkipSpaces(text, k + 1) <= Len(text)
                       /\ text[SkipSpaces(text, k + 1)] \in {"}", "]"}
        kept == SelectSeq([k \in 1..Len(text) |-> k], LAMBDA k : k >= i /\ ~trailing(k))
    IN [k \in DOMAIN kept |-> text[kept[k]]]

\* the text parseJsonc hands to JSON.parse
CleanJsonc(content) ==
    RemoveTrailingCommas(StripComments(content, 1, FALSE, <<>>), 1)

\* JSON.parse on the text of one string literal without escape sequences:
\* Some(the characters between the quotes), None when JSON.parse throws
JsonParseString(text) ==
    IF /\ Len(text) >= 2
       /\ text[1] = "\"" /\ text[Len(text)] = "\""
       /\ \A k \in 2..(Len(text) - 1) : text[k] \notin {"\"", "\\", "\n", "\r", "\t"}
    THEN Some(SubSeq(text, 2, Len(text) - 1))
    ELSE None

\* JSON.stringify of a string without characters that need an escape
JsonStringLiteral(chars) == <<"\"">> \o chars \o <<"\"">>

\* a top-level key of a JSON document whose value is a string literal
TopKey(k, text) == [key |-> k, text |-> text]

\* the value parseJsonc / JSON.parse give for each such key, printed again by
\* JSON.stringify
ReprintJsonc(top) ==
    {TopKey(e.key, JsonStringLiteral(Val(JsonParseString(CleanJsonc(e.text))))) : e \in top}
ReprintJson(top) ==
    {TopKey(e.key, JsonStringLiteral(Val(JsonParseString(e.text)))) : e \in top}

-----------------------------------------------------------------------------
(* Property order of a JavaScript object, and the JSON decoder and printer  *)
(* parseJsonc and the serializers call, on texts given as sequences of      *)
(* characters.                                                              *)

\* Array.prototype.join
RECURSIVE Join(_, _)
Join(parts, sep) ==
    IF Len(parts) = 0 THEN <<>>
    ELSE IF Len(parts) = 1 THEN parts[1]
    ELSE parts[1] \o sep \o Join(Tail(parts), sep)

DigitChars == <<"0", "1", "2", "3", "4", "5", "6", "7", "8", "9">>
IsDigit(ch) == \E d \in DOMAIN DigitChars : DigitChars[d] = ch
DigitValue(ch) == (CHOOSE d \in DOMAIN DigitChars : DigitChars[d] = ch) - 1

\* the name is an array index: decimal digits without a leading zero
IsArrayIndex(n) ==
    /\ Len(n) > 0
    /\ \A i \in DOMAIN n : IsDigit(n[i])
    /\ Len(n) > 1 => n[1] # "0"

RECURSIVE IndexValue(_)
IndexValue(n) ==
    IF Len(n) = 0 THEN 0
    ELSE 10 * IndexValue(SubSeq(n, 1, Len(n) - 1)) + DigitValue(n[Len(n)])

\* the number of own properties that stay before a new property named n:
\* array indices come first in ascending order, the other names follow in the
\* order of their creation
RECURSIVE KeysBefore(_, _)
KeysBefore(m, n) ==
    IF Len(m) = 0 THEN 0
    ELSE IF ~IsArrayIndex(n) THEN Len(m)
    ELSE IF IsArrayIndex(Head(m).name) /\ IndexValue(Head(m).name) < IndexValue(n)
         THEN 1 + KeysBefore(Tail(m), n)
         ELSE 0

\* an own data property named n is created or replaced (names are sequences
\* of characters)
DefineOwn(m, n, v) ==
    IF HasOwn(m, n) THEN Put(m, n, v)
    ELSE LET k == KeysBefore(m, n)
         IN SubSeq(m, 1, k) \o <<[name |-> n, server |-> v]>> \o SubSeq(m, k + 1, Len(m))

\* obj[name] = value on an object literal: the name __proto__ reaches the
\* setter of Object.prototype and creates no own property
ProtoKey == <<"__proto__">>
SetProperty(m, n, v) == IF n = ProtoKey THEN m ELSE DefineOwn(m, n, v)

\* JSON values: kind is "string", "number", "literal" (true, false, null),
\* "array" or "object"; str holds the characters of a string, of a number or
\* of a literal, items the elements of an array or the properties of an
\* object in their order
JsonValue(kind, str, items) == [kind |-> kind, str |-> str, items |-> items]
JsonStr(chars) == JsonValue("string", chars, <<>>)
JsonNum(digits) == JsonValue("number", digits, <<>>)
JsonLit(word) == JsonValue("literal", <<word>>, <<>>)
JsonArr(items) == JsonValue("array", <<>>, items)
JsonObj(props) == JsonValue("object", <<>>, props)

\* what a step of the decoder returns: the value and the index after it
Parsed(value, next) == [ok |-> TRUE, value |-> value, next |-> next]
SyntaxError == [ok |-> FALSE, value |-> JsonLit("null"), next |-> 0]

\* the character an escape sequence stands for (\u is not among the
\* characters of the texts)
EscapedChar(ch) ==
    IF ch \in {"\"", "\\", "/"} THEN Some(ch)
    ELSE IF ch = "n" THEN Some("\n")
    ELSE IF ch = "r" THEN Some("\r")
    ELSE IF ch = "t" THEN Some("\t")
    ELSE None

\* the characters of a string literal whose opening quote is before j0; the
\* characters up to the next quote, escape or control character are taken in
\* one step
RECURSIVE JsonStringAt(_, _, _)
JsonStringAt(text, j0, chars0) ==
    LET j == NextIn(text, j0, {"\"", "\\", "\n", "\r", "\t"})
        chars == chars0 \o SubSeq(text, j0, j - 1)
    IN IF j > Len(text) THEN SyntaxError
       ELSE IF text[j] = "\"" THEN Parsed(JsonStr(chars), j + 1)
       ELSE IF text[j] # "\\" THEN SyntaxError
       ELSE IF j = Len(text) \/ ~IsSome(EscapedChar(text[j + 1])) THEN SyntaxError
       ELSE JsonStringAt(text, j + 2, Append(chars, Val(EscapedChar(text[j + 1]))))

\* the index after the digits that start at i
DigitRun(text, i) == NextNotIn(text, i, Range(DigitChars))

RECURSIVE JsonValueAt(_, _)
RECURSIVE JsonElementsAt(_, _, _)
RECURSIVE JsonMembersAt(_, _, _)

\* a value that starts at i or after blanks
JsonValueAt(text, i0) ==
    LET i == SkipSpaces(text, i0)
        j == SkipSpaces(text, i + 1)
        d == DigitRun(text, i)
    IN IF i > Len(text) THEN SyntaxError
       ELSE IF text[i] = "\"" THEN JsonStringAt(text, i + 1, <<>>)
       ELSE IF text[i] \in {"true", "false", "null"} THEN Parsed(JsonLit(text[i]), i + 1)
       ELSE IF IsDigit(text[i])
       THEN IF text[i] = "0" /\ d > i + 1 THEN SyntaxError
            ELSE Parsed(JsonNum(SubSeq(text, i, d - 1)), d)
       ELSE IF text[i] = "["
       THEN IF j <= Len(text) /\ text[j] = "]" THEN Parsed(JsonArr(<<>>), j + 1)
            ELSE JsonElementsAt(text, i + 1, <<>>)
       ELSE IF text[i] = "{"
       THEN IF j <= Len(text) /\ text[j] = "}" THEN Parsed(JsonObj(<<>>), j + 1)
            ELSE JsonMembersAt(text, i + 1, <<>>)
       ELSE SyntaxError

\* the elements of an array from i on
JsonElementsAt(text, i, items) ==
    LET Element(v) ==
            LET j == SkipSpaces(text, v.next)
            IN IF ~v.ok \/ j > Len(text) THEN SyntaxError
               ELSE IF text[j] = "," THEN JsonElementsAt(text, j + 1, Append(items, v.value))
               ELSE IF text[j] = "]" THEN Parsed(JsonArr(Append(items, v.value)), j + 1)
               ELSE SyntaxError
    IN Element(JsonValueAt(text, i))

\* the members of an object from i on; a repeated key keeps its first place
\* and takes the last value
JsonMembersAt(text, i, props) ==
    LET k == SkipSpaces(text, i)
        key == IF k <= Len(text) /\ text[k] = "\"" THEN JsonStringAt(text, k + 1, <<>>)
               ELSE SyntaxError
        c == SkipSpaces(text, key.next)
        Member(v) ==
            LET j == SkipSpaces(text, v.next)
            IN IF ~v.ok \/ j > Len(text) THEN SyntaxError
               ELSE IF text[j] = ","
               THEN JsonMembersAt(text, j + 1, DefineOwn(props, key.value.str, v.value))
               ELSE IF text[j] = "}"
               THEN Parsed(JsonObj(DefineOwn(props, key.value.str, v.value)), j + 1)
               ELSE SyntaxError
    IN Member(IF key.ok /\ c <= Len(text) /\ text[c] = ":" THEN JsonValueAt(text, c + 1)
              ELSE SyntaxError)

\* JSON.parse(text): Some(value), or None when it throws
JsonParse(text) ==
    LET Whole(v) == IF v.ok /\ SkipSpaces(text, v.next) > Len(text) THEN Some(v.value)
                    ELSE None
    IN Whole(JsonValueAt(text, 1))

\* parseJsonc(content): Some(value), or None when it throws
parseJsonc(content) == JsonParse(CleanJsonc(content))

\* the characters JSON.stringify writes for one character of a string
EscapeChar(ch) ==
    IF ch \in {"\"", "\\"} THEN <<"\\", ch>>
    ELSE IF ch = "\n" THEN <<"\\", "n">>
    ELSE IF ch = "\r" THEN <<"\\", "r">>
    ELSE IF ch = "\t" THEN <<"\\", "t">>
    ELSE <<ch>>

RECURSIVE EscapeChars(_)
EscapeChars(chars) ==
    IF Len(chars) = 0 THEN <<>> ELSE EscapeChar(Head(chars)) \o EscapeChars(Tail(chars))

QuoteJson(chars) == <<"\"">> \o EscapeChars(chars) \o <<"\"">>

Spaces(n) == [i \in 1..n |-> " "]

\* JSON.stringify(value, null, 2) of a value nested at the given indentation
RECURSIVE JsonStringify(_, _)
JsonStringify(value, indent) ==
    IF value.kind = "string" THEN QuoteJson(value.str)
    ELSE IF value.kind \in {"number", "literal"} THEN value.str
    ELSE IF value.kind = "array"
    THEN IF Len(value.items) = 0 THEN <<"[", "]">>
         ELSE <<"[", "\n">>
              \o Join([i \in DOMAIN value.items |->
                         Spaces(indent + 2) \o JsonStringify(value.items[i], indent + 2)],
                      <<",", "\n">>)
              \o <<"\n">> \o Spaces(indent) \o <<"]">>
    ELSE IF Len(value.items) = 0 THEN <<"{", "}">>
         ELSE <<"{", "\n">>
              \o Join([i \in DOMAIN value.items |->
                         Spaces(indent + 2) \o QuoteJson(value.items[i].name) \o <<":", " ">>
                         \o JsonStringify(value.items[i].server, indent + 2)],
                      <<",", "\n">>)
              \o <<"\n">> \o Spaces(indent) \o <<"}">>

-----------------------------------------------------------------------------
(* parsers/toml.ts on a text given as a sequence of characters.  A token of *)
(* several letters ("command", "mcp_servers.") stands for its characters.   *)

\* String.prototype.trim
RECURSIVE TrimLeft(_)
TrimLeft(text) == IF Len(text) > 0 /\ IsSpace(text[1]) THEN TrimLeft(Tail(text)) ELSE text
RECURSIVE TrimRight(_)
TrimRight(text) ==
    IF Len(text) > 0 /\ IsSpace(text[Len(text)])
    THEN TrimRight(SubSeq(text, 1, Len(text) - 1))
    ELSE text
Trim(text) == TrimRight(TrimLeft(text))

\* String.prototype.split on a one-character separator
RECURSIVE SplitLoop(_, _, _, _, _)
SplitLoop(text, sep, i, current, pieces) ==
    IF i > Len(text) THEN Append(pieces, current)
    ELSE IF text[i] = sep THEN SplitLoop(text, sep, i + 1, <<>>, Append(pieces, current))
    ELSE SplitLoop(text, sep, i + 1, Append(current, text[i]), pieces)
Split(text, sep) == SplitLoop(text, sep, 1, <<>>, <<>>)

\* \w of the regular expressions: every character but these
NonWordChars ==
    {" ", "\t", "\n", "\r", "=", "\"", ",", "[", "]", "{", "}", "#", ".", "-",
     "\\", "/", "*", ":", "mcp_servers."}
IsWordChar(ch) == ch \notin NonWordChars

\* the index after the longest run of word characters that starts at i
RECURSIVE WordRun(_, _)
WordRun(text, i) ==
    IF i <= Len(text) /\ IsWordChar(text[i]) THEN WordRun(text, i + 1) ELSE i

\* the values parseValue returns: a string, an array of strings, a table
TomlString(str) == [kind |-> "string", str |-> str]
TomlArray(items) == [kind |-> "array", items |-> items]
TomlTable(pairs) == [kind |-> "table", pairs |-> pairs]

\* the loop of parseArray over inner
RECURSIVE ArrayLoop(_, _, _, _, _)
ArrayLoop(inner, i, current, inString, result) ==
    LET pushed == IF Len(Trim(current)) > 0 THEN Append(result, Trim(current)) ELSE result
    IN IF i > Len(inner) THEN pushed
       ELSE IF inner[i] = "\"" /\ (i = 1 \/ inner[i - 1] # "\\")
       THEN ArrayLoop(inner, i + 1, current, ~inString, result)
       ELSE IF inner[i] = "," /\ ~inString
       THEN ArrayLoop(inner, i + 1, <<>>, inString, pushed)
       ELSE IF ~inString /\ inner[i] \in {" ", "\t"}
       THEN ArrayLoop(inner, i + 1, current, inString, result)
       ELSE ArrayLoop(inner, i + 1, Append(current, inner[i]), inString, result)

parseArray(value) ==
    LET inner == Trim(SubSeq(value, 2, Len(value) - 1))
    IN IF Len(inner) = 0 THEN <<>> ELSE ArrayLoop(inner, 1, <<>>, FALSE, <<>>)

\* pair.trim().match(/^"?(\w+)"?\s*=\s*"([^"]*)"$/): Option(<<key, value>>)
PairMatch(pair) ==
    LET k1 == IF Len(pair) > 0 /\ pair[1] = "\"" THEN 2 ELSE 1
        k2 == WordRun(pair, k1)
        k3 == IF k2 <= Len(pair) /\ pair[k2] = "\"" THEN k2 + 1 ELSE k2
        eq == SkipSpaces(pair, k3)
        q == SkipSpaces(pair, eq + 1)
    IN IF /\ k2 > k1
          /\ eq <= Len(pair) /\ pair[eq] = "="
          /\ q < Len(pair) /\ pair[q] = "\"" /\ pair[Len(pair)] = "\""
          /\ \A j \in (q + 1)..(Len(pair) - 1) : pair[j] # "\""
       THEN Some(<<SubSeq(pair, k1, k2 - 1), SubSeq(pair, q + 1, Len(pair) - 1)>>)
       ELSE None

\* result[match[1]] = match[2] on a table kept as a sequence of <<key, value>>
PutPair(pairs, kv) ==
    IF \E i \in DOMAIN pairs : pairs[i][1] = kv[1]
    THEN [i \in DOMAIN pairs |-> IF pairs[i][1] = kv[1] THEN kv ELSE pairs[i]]
    ELSE Append(pairs, kv)

RECURSIVE TableLoop(_, _)
TableLoop(pieces, result) ==
    IF Len(pieces) = 0 THEN result
    ELSE LET match == PairMatch(Trim(Head(pieces)))
         IN TableLoop(Tail(pieces), IF IsSome(match) THEN PutPair(result, Val(match)) ELSE result)

parseInlineTable(value) ==
    LET inner == Trim(SubSeq(value, 2, Len(value) - 1))
    IN IF Len(inner) = 0 THEN <<>> ELSE TableLoop(Split(inner, ","), <<>>)

StartsWith(text, ch) == Len(text) > 0 /\ text[1] = ch
EndsWith(text, ch) == Len(text) > 0 /\ text[Len(text)] = ch

parseValue(value) ==
    IF StartsWith(value, "\"") /\ EndsWith(value, "\"")
    THEN TomlString(SubSeq(value, 2, Len(value) - 1))
    ELSE IF StartsWith(value, "[") /\ EndsWith(value, "]") THEN TomlArray(parseArray(value))
    ELSE IF StartsWith(value, "{") /\ EndsWith(value, "}") THEN TomlTable(parseInlineTable(value))
    ELSE TomlString(value)

\* line.match(/^\[([^\]]+)\]$/): Option(the section name)
SectionMatch(line) ==
    IF /\ Len(line) >= 3
       /\ line[1] = "[" /\ line[Len(line)] = "]"
       /\ \A k \in 2..(Len(line) - 1) : line[k] # "]"
    THEN Some(SubSeq(line, 2, Len(line) - 1))
    ELSE None

\* line.match(/^(\w+)\s*=\s*(.+)$/) on a trimmed line: Option(<<key, rawValue>>)
KeyValueMatch(line) ==
    LET k == WordRun(line, 1)
        eq == SkipSpaces(line, k)
        v == SkipSpaces(line, eq + 1)
    IN IF k > 1 /\ eq <= Len(line) /\ line[eq] = "=" /\ v <= Len(line)
       THEN Some(<<SubSeq(line, 1, k - 1), SubSeq(line, v, Len(line))>>)
       ELSE None

\* the loop of parseToml; result maps section names to key/value dictionaries.
\* Under the section name __proto__ the keys go to the object that became the
\* prototype of result, which no later step reads.
RECURSIVE TomlLoop(_, _, _)
TomlLoop(lines, currentSection, result) ==
    IF Len(lines) = 0 THEN result
    ELSE LET line == Trim(Head(lines))
             sectionMatch == SectionMatch(line)
             keyValueMatch == KeyValueMatch(line)
         IN IF Len(line) = 0 \/ StartsWith(line, "#")
            THEN TomlLoop(Tail(lines), currentSection, result)
            ELSE IF IsSome(sectionMatch)
            THEN TomlLoop(Tail(lines), Val(sectionMatch),
                          SetProperty(result, Val(sectionMatch), <<>>))
            ELSE IF Len(currentSection) = 0 \/ ~IsSome(keyValueMatch)
                    \/ currentSection = ProtoKey
            THEN TomlLoop(Tail(lines), currentSection, result)
            ELSE TomlLoop(Tail(lines), currentSection,
                          Put(result, currentSection,
                              SetProperty(Get(result, currentSection), Val(keyValueMatch)[1],
                                          parseValue(Trim(Val(keyValueMatch)[2])))))

parseToml(content) == TomlLoop(Split(content, "\n"), <<>>, <<>>)

Quoted(str) == <<"\"">> \o str \o <<"\"">>

stringifyValue(value) ==
    IF value.kind = "string" THEN Quoted(value.str)
    ELSE IF value.kind = "array"
    THEN <<"[">> \o Join([i \in DOMAIN value.items |-> Quoted(value.items[i])], <<",", " ">>) \o <<"]">>
    ELSE <<"{", " ">>
         \o Join([i \in DOMAIN value.pairs |->
                    Quoted(value.pairs[i][1]) \o <<" ", "=", " ">> \o Quoted(value.pairs[i][2])],
                 <<",", " ">>)
         \o <<" ", "}">>

\* the lines stringifyToml pushes for one section
SectionLines(section, values) ==
    <<<<"[">> \o section \o <<"]">>>>
    \o [i \in DOMAIN values |->
          values[i].name \o <<" ", "=", " ">> \o stringifyValue(values[i].server)]
    \o <<<<>>>>

RECURSIVE AllSectionLines(_)
AllSectionLines(data) ==
    IF Len(data) = 0 THEN <<>>
    ELSE SectionLines(Head(data).name, Head(data).server) \o AllSectionLines(Tail(data))

stringifyToml(data) == Join(AllSectionLines(data), <<"\n">>)

-----------------------------------------------------------------------------
(* clients/codex.ts on the text of the file *)

MCP_PREFIX == "mcp_servers."

\* values.command, values.args, values.env: the value of the key, or undefined
ValueOf(values, key) ==
    IF ~HasOwn(values, <<key>>) THEN None
    ELSE LET v == Get(values, <<key>>)
         IN Some(IF v.kind = "string" THEN v.str
                 ELSE IF v.kind = "array" THEN v.items ELSE v.pairs)

\* if (command): every value but undefined and the empty string
TruthyValue(values, key) ==
    /\ HasOwn(values, <<key>>)
    /\ Get(values, <<key>>).kind = "string" => Len(Get(values, <<key>>).str) > 0

\* the loop of getCodexConfig over Object.entries(parsed)
RECURSIVE CodexLoop(_, _)
CodexLoop(parsed, mcpServers) ==
    IF Len(parsed) = 0 THEN mcpServers
    ELSE LET section == Head(parsed).name
             values == Head(parsed).server
         IN IF ~StartsWith(section, MCP_PREFIX) \/ ~TruthyValue(values, "command")
            THEN CodexLoop(Tail(parsed), mcpServers)
            ELSE CodexLoop(Tail(parsed),
                           SetProperty(mcpServers, Tail(section),
                               Srv(ValueOf(values, "command"), ValueOf(values, "args"),
                                   ValueOf(values, "env"))))

\* the mapping getCodexConfig builds from the content of the file
readCodexContent(content) == CodexLoop(parseToml(content), <<>>)

\* the section serializeCodexConfig builds for one server
CodexSection(server) ==
    <<Entry(<<"command">>, TomlString(Val(server.command)))>>
    \o (IF IsSome(server.args) THEN <<Entry(<<"args">>, TomlArray(Val(server.args)))>> ELSE <<>>)
    \o (IF IsSome(server.env) THEN <<Entry(<<"env">>, TomlTable(Val(server.env)))>> ELSE <<>>)

RECURSIVE PutAllSections(_, _)
PutAllSections(existing, m) ==
    IF Len(m) = 0 THEN existing
    ELSE PutAllSections(Put(existing, <<MCP_PREFIX>> \o Head(m).name, CodexSection(Head(m).server)),
                        Tail(m))

\* serializeCodexConfig on texts: the content it returns
serializeCodexContent(m, existingContent) ==
    stringifyToml(
        PutAllSections(
            SelectSeq(parseToml(existingContent), LAMBDA e : ~StartsWith(e.name, MCP_PREFIX)),
            m))

-----------------------------------------------------------------------------
(* clients/opencode.ts on the text of the file *)

\* value.key, for a value that is not null: the own property, or undefined
Field(value, key) ==
    IF value.kind = "object" /\ HasOwn(value.items, key)
    THEN Some(Get(value.items, key))
    ELSE None

IsNull(value) == value = JsonLit("null")

\* a value in a condition
JsTruthy(value) ==
    IF value.kind = "string" THEN Len(value.str) > 0
    ELSE IF value.kind = "number" THEN value.str # <<"0">>
    ELSE IF value.kind = "literal" THEN value.str = <<"true">>
    ELSE TRUE

\* Object.entries(value) and the properties { ...value } copies, for a value
\* that is not null: the properties of an object, the elements of an array
\* or the characters of a string under their indices, nothing for a number
\* or a boolean
ObjectEntries(value) ==
    IF value.kind = "object" THEN value.items
    ELSE IF value.kind = "array"
    THEN [i \in DOMAIN value.items |-> [name |-> <<DigitChars[i]>>, server |-> value.items[i]]]
    ELSE IF value.kind = "string"
    THEN [i \in DOMAIN value.str |-> [name |-> <<DigitChars[i]>>, server |-> JsonStr(<<value.str[i]>>)]]
    ELSE <<>>

\* const [command, ...args] = server.command: Some(the elements the value
\* yields), or None when it is not iterable
Iterate(value) ==
    IF ~IsSome(value) THEN None
    ELSE IF Val(value).kind = "array" THEN Some(Val(value).items)
    ELSE IF Val(value).kind = "string"
    THEN Some([i \in DOMAIN Val(value).str |-> JsonStr(<<Val(value).str[i]>>)])
    ELSE None

\* an element as a string of the canonical mapping: undefined, null and any
\* other value that is not a string are None
StringOf(elements, i) ==
    IF i <= Len(elements) /\ elements[i].kind = "string" THEN Some(elements[i].str) ELSE None

\* server.environment as the env of the canonical mapping
EnvOf(value) ==
    [i \in DOMAIN ObjectEntries(value) |->
        <<ObjectEntries(value)[i].name, ObjectEntries(value)[i].server.str>>]

\* the loop of getOpenCodeConfig over Object.entries(parsed.mcp);
\* acc = [threw, servers]
RECURSIVE OpenCodeLoop(_, _)
OpenCodeLoop(entries, acc) ==
    IF Len(entries) = 0 \/ acc.threw THEN acc
    ELSE LET n == Head(entries).name
             server == Head(entries).server
             elements == Iterate(Field(server, <<"command">>))
             environment == Field(server, <<"environment">>)
         IN IF IsNull(server) THEN [acc EXCEPT !.threw = TRUE]
            ELSE IF Field(server, <<"type">>) # Some(JsonStr(<<"local">>))
            THEN OpenCodeLoop(Tail(entries), acc)
            ELSE IF Field(server, <<"enabled">>) = Some(JsonLit("false"))
            THEN OpenCodeLoop(Tail(entries), acc)
            ELSE IF ~IsSome(elements) THEN [acc EXCEPT !.threw = TRUE]
            ELSE OpenCodeLoop(
                    Tail(entries),
                    [acc EXCEPT !.servers =
                        SetProperty(@, n,
                            Srv(StringOf(Val(elements), 1),
                                IF Len(Val(elements)) > 1
                                THEN Some([i \in 1..(Len(Val(elements)) - 1) |->
                                             Val(elements)[i + 1].str])
                                ELSE None,
                                IF IsSome(environment) /\ JsTruthy(Val(environment))
                                THEN Some(EnvOf(Val(environment)))
                                ELSE None))])

\* the mapping getOpenCodeConfig builds from the content of the file:
\* Some(mcpServers), or None when the config of the descriptor is null
readOpenCodeContent(content) ==
    LET Servers(r) == IF r.threw THEN None ELSE Some(r.servers)
        Lift(parsed) ==
            LET mcp == Field(Val(parsed), <<"mcp">>)
            IN IF ~IsSome(parsed) \/ IsNull(Val(parsed)) THEN None
               ELSE IF ~IsSome(mcp) \/ ~JsTruthy(Val(mcp)) THEN Some(<<>>)
               ELSE Servers(OpenCodeLoop(ObjectEntries(Val(mcp)),
                                         [threw |-> FALSE, servers |-> <<>>]))
    IN Lift(parseJsonc(content))

\* the loop of serializeOpenCodeConfig over Object.entries(existing.mcp);
\* acc = [threw, servers]
RECURSIVE RemoteLoop(_, _)
RemoteLoop(entries, acc) ==
    IF Len(entries) = 0 \/ acc.threw THEN acc
    ELSE IF IsNull(Head(entries).server) THEN [acc EXCEPT !.threw = TRUE]
    ELSE IF Field(Head(entries).server, <<"type">>) = Some(JsonStr(<<"remote">>))
    THEN RemoteLoop(Tail(entries),
                    [acc EXCEPT !.servers = SetProperty(@, Head(entries).name, Head(entries).server)])
    ELSE RemoteLoop(Tail(entries), acc)

\* the entry serializeOpenCodeConfig builds for one server; an undefined
\* command is printed as null
LocalEntry(server) ==
    JsonObj(
        <<Entry(<<"type">>, JsonStr(<<"local">>)),
          Entry(<<"command">>,
                JsonArr(<<IF IsSome(server.command) THEN JsonStr(Val(server.command))
                          ELSE JsonLit("null")>>
                        \o [i \in DOMAIN OrElse(server.args, <<>>) |->
                              JsonStr(OrElse(server.args, <<>>)[i])]))>>
        \o (IF IsSome(server.env)
            THEN <<Entry(<<"environment">>,
                         JsonObj([i \in DOMAIN Val(server.env) |->
                                    Entry(Val(server.env)[i][1], JsonStr(Val(server.env)[i][2]))]))>>
            ELSE <<>>))

RECURSIVE LocalLoop(_, _)
LocalLoop(newMcp, m) ==
    IF Len(m) = 0 THEN newMcp
    ELSE LocalLoop(SetProperty(newMcp, Head(m).name, LocalEntry(Head(m).server)), Tail(m))

\* serializeOpenCodeConfig on texts: [threw, text]
serializeOpenCodeContent(m, existingContent) ==
    LET Emit(existing, remoteMcp) ==
            IF ~IsSome(existing) \/ IsNull(Val(existing)) \/ remoteMcp.threw
            THEN [threw |-> TRUE, text |-> existingContent]
            ELSE [threw |-> FALSE,
                  text |-> JsonStringify(
                             JsonObj(DefineOwn(ObjectEntries(Val(existing)), <<"mcp">>,
                                               JsonObj(LocalLoop(remoteMcp.servers, m)))),
                             0)
                           \o <<"\n">>]
        Keep(existing) ==
            LET mcp == Field(Val(existing), <<"mcp">>)
            IN Emit(existing,
                    IF IsSome(mcp) /\ JsTruthy(Val(mcp))
                    THEN RemoteLoop(ObjectEntries(Val(mcp)), [threw |-> FALSE, servers |-> <<>>])
                    ELSE [threw |-> FALSE, servers |-> <<>>])
    IN Keep(parseJsonc(existingContent))

-----------------------------------------------------------------------------
(* The file system.  A file is [exists, fmt, doc]: doc is the content as its *)
(* adapter's parser sees it, fmt tells whether the bytes are exactly what    *)
(* this program's serializer prints for doc ("canonical") or the user's own  *)
(* text ("custom": other whitespace, comments, key order).  Two files are    *)
(* byte-identical iff they are equal as records.                             *)

CursorPath == ".cursor/mcp.json"
ClaudePath == ".mcp.json"
WindsurfPath == ".windsurf/mcp.json"
WindsurfGlobalPath == "~/.codeium/windsurf/mcp_config.json"
ClinePath == ".cline/mcp.json"
ClineGlobalPath == "~/.config/Code/User/globalStorage/saoudrizwan.claude-dev/settings/cline_mcp_settings.json"
RooPath == ".roo/mcp.json"
GeminiPath == ".gemini/settings.json"
CodexPath == ".codex/config.toml"
OpenCodePath == ".opencode/opencode.jsonc"

PlainPaths == {CursorPath, ClaudePath, WindsurfPath, WindsurfGlobalPath,
               ClinePath, ClineGlobalPath, RooPath}
Paths == PlainPaths \cup {GeminiPath, CodexPath, OpenCodePath}

\* JSON document of a plain-JSON client or of Gemini: ok = JSON.parse succeeds,
\* top = the top-level keys other than mcpServers, each with the text of its value,
\* mcpServers = the value of the mcpServers key (None: absent or null)
JsonDoc(ok, top, mcp) == [ok |-> ok, top |-> top, mcpServers |-> mcp]

\* TOML document as parseToml returns it: the sections in order.  A section is
\* [mcp, name, command, args, env]: mcp = the header starts with MCP_PREFIX,
\* name = the header without the prefix.
TomlSection(isMcp, n, c, a, e) ==
    [mcp |-> isMcp, name |-> n, command |-> c, args |-> a, env |-> e]
TomlDoc(sections) == [ok |-> TRUE, sections |-> sections]

\* OpenCode document: ok = parseJsonc succeeds, top = the keys other than mcp,
\* mcp = the mcp object (None: absent), an ordered dictionary of entries
\* [type, enabled, command, environment]; command is None or the array as
\* [first, rest], first being None for a null element or an empty array.
OpenCodeDoc(ok, top, mcp) == [ok |-> ok, top |-> top, mcp |-> mcp]
OcEntry(t, en, c, e) == [type |-> t, enabled |-> en, command |-> c, environment |-> e]
OcCommand(first, rest) == [first |-> first, rest |-> rest]

File(doc) == [exists |-> TRUE, fmt |-> "custom", doc |-> doc]
Printed(doc) == [exists |-> TRUE, fmt |-> "canonical", doc |-> doc]

NoFile(p) ==
    [exists |-> FALSE, fmt |-> "none",
     doc |-> IF p = CodexPath THEN TomlDoc(<<>>)
             ELSE IF p = OpenCodePath THEN OpenCodeDoc(FALSE, {}, None)
             ELSE JsonDoc(FALSE, {}, None)]

-----------------------------------------------------------------------------
(* clients/*.ts: the read adapters *)

\* JSON.parse succeeds on the document
JsonParses(doc) == doc.ok /\ \A e \in doc.top : IsSome(JsonParseString(e.text))

\* parseJsonc succeeds on the document
JsoncParses(doc) == doc.ok /\ \A e \in doc.top : IsSome(JsonParseString(CleanJsonc(e.text)))

\* a plain-JSON adapter that takes a file it cannot parse for an empty config
ReadPlainJsonAsEmpty(files, n, configPath) ==
    Descriptor(n, configPath,
               Some([mcpServers |-> Some(OrElse(files[configPath].doc.mcpServers, <<>>))]),
               TRUE)

\* cursor.ts, claude-code.ts, roo-code.ts and the tail of windsurf.ts, cline.ts:
\* JSON.parse(content) as McpConfig, no validation
ReadPlainJson(files, n, configPath) ==
    IF ~JsonParses(files[configPath].doc)
    THEN Descriptor(n, configPath, None, TRUE)
    ELSE Descriptor(n, configPath,
                    Some([mcpServers |-> files[configPath].doc.mcpServers]), TRUE)

getCursorConfig(files) ==
    IF ~files[CursorPath].exists THEN Descriptor("Cursor", CursorPath, None, FALSE)
    ELSE ReadPlainJson(files, "Cursor", CursorPath)

getClaudeCodeConfig(files) ==
    IF ~files[ClaudePath].exists THEN Descriptor("Claude Code", ClaudePath, None, FALSE)
    ELSE ReadPlainJson(files, "Claude Code", ClaudePath)

\* project-level file preferred, global file as the fallback
getWindsurfConfig(files) ==
    LET configPath == IF files[WindsurfPath].exists THEN WindsurfPath
                      ELSE WindsurfGlobalPath
    IN IF ~files[configPath].exists
       THEN Descriptor("Windsurf", WindsurfPath, None, FALSE)
       ELSE ReadPlainJson(files, "Windsurf", configPath)

getClineConfig(files) ==
    LET configPath == IF files[ClinePath].exists THEN ClinePath ELSE ClineGlobalPath
    IN IF ~files[configPath].exists
       THEN Descriptor("Cline", ClinePath, None, FALSE)
       ELSE ReadPlainJson(files, "Cline", configPath)

getRooCodeConfig(files) ==
    IF ~files[RooPath].exists THEN Descriptor("Roo Code", RooPath, None, FALSE)
    ELSE ReadPlainJson(files, "Roo Code", RooPath)

\* mcpServers: parsed.mcpServers ?? {}
getGeminiConfig(files) ==
    IF ~files[GeminiPath].exists THEN Descriptor("Gemini CLI", GeminiPath, None, FALSE)
    ELSE IF ~JsonParses(files[GeminiPath].doc)
         THEN Descriptor("Gemini CLI", GeminiPath, None, TRUE)
    ELSE Descriptor("Gemini CLI", GeminiPath,
                    Some([mcpServers |-> Some(OrElse(files[GeminiPath].doc.mcpServers, <<>>))]),
                    TRUE)

\* if (command): a non-empty string
Truthy(c) == IsSome(c) /\ Val(c) # ""

RECURSIVE CodexServers(_, _)
CodexServers(acc, sections) ==
    IF Len(sections) = 0 THEN acc
    ELSE LET sec == Head(sections)
         IN IF ~sec.mcp THEN CodexServers(acc, Tail(sections))
            ELSE IF Truthy(sec.command)
                 THEN CodexServers(Put(acc, sec.name, Srv(sec.command, sec.args, sec.env)),
                                   Tail(sections))
                 ELSE CodexServers(acc, Tail(sections))

getCodexConfig(files) ==
    IF ~files[CodexPath].exists THEN Descriptor("Codex", CodexPath, None, FALSE)
    ELSE Descriptor("Codex", CodexPath,
                    Some([mcpServers |-> Some(CodexServers(<<>>, files[CodexPath].doc.sections))]),
                    TRUE)

\* the loop of getOpenCodeConfig; acc = [threw, servers]
RECURSIVE OpenCodeServers(_, _)
OpenCodeServers(acc, entries) ==
    IF Len(entries) = 0 \/ acc.threw THEN acc
    ELSE LET n == Head(entries).name
             server == Head(entries).server
         IN IF server.type # "local" THEN OpenCodeServers(acc, Tail(entries))
            ELSE IF server.enabled = Some(FALSE) THEN OpenCodeServers(acc, Tail(entries))
            ELSE IF ~IsSome(server.command)
                 THEN [acc EXCEPT !.threw = TRUE]
                 ELSE OpenCodeServers(
                        [acc EXCEPT !.servers =
                            Put(@, n, Srv(Val(server.command).first,
                                          IF Len(Val(server.command).rest) > 0
                                          THEN Some(Val(server.command).rest) ELSE None,
                                          server.environment))],
                        Tail(entries))

getOpenCodeConfig(files) ==
    IF ~files[OpenCodePath].exists THEN Descriptor("OpenCode", OpenCodePath, None, FALSE)
    ELSE IF ~JsoncParses(files[OpenCodePath].doc)
         THEN Descriptor("OpenCode", OpenCodePath, None, TRUE)
    ELSE LET r == OpenCodeServers([threw |-> FALSE, servers |-> <<>>],
                                  OrElse(files[OpenCodePath].doc.mcp, <<>>))
         IN IF r.threw THEN Descriptor("OpenCode", OpenCodePath, None, TRUE)
            ELSE Descriptor("OpenCode", OpenCodePath,
                            Some([mcpServers |-> Some(r.servers)]), TRUE)

\* index.ts:119-128
ReadClients(files) ==
    << getCursorConfig(files), getClaudeCodeConfig(files), getWindsurfConfig(files),
       getClineConfig(files), getRooCodeConfig(files), getGeminiConfig(files),
       getCodexConfig(files), getOpenCodeConfig(files) >>

-----------------------------------------------------------------------------
(* The serializers.  Each returns [threw, doc]: threw = an exception escapes *)
(* (nothing is written), doc = the document the printed text holds.          *)

Wrote(doc) == [threw |-> FALSE, doc |-> doc]
Threw(doc) == [threw |-> TRUE, doc |-> doc]

\* a serializer that spreads the existing document as the Gemini one does
SerializePlainKeepingKeys(m, existing) == Wrote(JsonDoc(TRUE, existing.top, Some(m)))

\* index.ts:226: JSON.stringify(merged, null, 2) + "\n"
SerializePlain(m, existing) == Wrote(JsonDoc(TRUE, {}, Some(m)))

\* index.ts:219-220: JSON.parse(existingContent), then
\* JSON.stringify({ ...existing, mcpServers: merged.mcpServers }, null, 2) + "\n"
SerializeGemini(m, existing) ==
    IF ~JsonParses(existing) THEN Threw(existing)
    ELSE Wrote(JsonDoc(TRUE, ReprintJson(existing.top), Some(m)))

\* codex.ts serializeCodexConfig with toml.ts stringifyToml: the sections
\* without the prefix stay, in order; one section per merged server follows.
\* stringifyValue(undefined) throws (Object.entries of undefined), so a server
\* without a command makes the call throw.
serializeCodexConfig(m, existing) ==
    IF \E i \in DOMAIN m : ~IsSome(m[i].server.command) THEN Threw(existing)
    ELSE Wrote(TomlDoc(
            SelectSeq(existing.sections, LAMBDA sec : ~sec.mcp)
            \o [i \in DOMAIN m |->
                  TomlSection(TRUE, m[i].name, m[i].server.command,
                              m[i].server.args, m[i].server.env)]))

RECURSIVE PutAllLocal(_, _)
PutAllLocal(newMcp, m) ==
    IF Len(m) = 0 THEN newMcp
    ELSE PutAllLocal(
            Put(newMcp, Head(m).name,
                OcEntry("local", None,
                        Some(OcCommand(Head(m).server.command,
                                       OrElse(Head(m).server.args, <<>>))),
                        Head(m).server.env)),
            Tail(m))

\* opencode.ts serializeOpenCodeConfig: the remote entries, then every merged
\* server as a local entry; { ...existing, mcp: newMcp }
serializeOpenCodeConfig(m, existing) ==
    IF ~JsoncParses(existing) THEN Threw(existing)
    ELSE Wrote(OpenCodeDoc(TRUE, ReprintJsonc(existing.top),
            Some(PutAllLocal(
                    SelectSeq(OrElse(existing.mcp, <<>>),
                              LAMBDA e : e.server.type = "remote"),
                    m))))

\* index.ts:218-227
Serialize(client, m, existing) ==
    IF client.name = "Gemini CLI" THEN SerializeGemini(m, existing)
    ELSE IF client.name = "Codex" THEN serializeCodexConfig(m, existing)
    ELSE IF client.name = "OpenCode" THEN serializeOpenCodeConfig(m, existing)
    ELSE SerializePlain(m, existing)

-----------------------------------------------------------------------------
(* index.ts: run *)

CLIENT_ALIASES ==
    [a \in {"cursor", "claude", "claude-code", "windsurf", "cline", "roo",
            "roo-code", "gemini", "gemini-cli", "codex", "opencode"} |->
        CASE a = "cursor" -> "Cursor"
          [] a \in {"claude", "claude-code"} -> "Claude Code"
          [] a = "windsurf" -> "Windsurf"
          [] a = "cline" -> "Cline"
          [] a \in {"roo", "roo-code"} -> "Roo Code"
          [] a \in {"gemini", "gemini-cli"} -> "Gemini CLI"
          [] a = "codex" -> "Codex"
          [] a = "opencode" -> "OpenCode"]

\* String.prototype.toLowerCase on the identifiers the model passes
ToLowerCase(s) == IF s = "Cursor" THEN "cursor" ELSE s

\* CLIENT_ALIASES[sourceArg]: the value of an own key, or the property the
\* object literal inherits from Object.prototype (a function, which is truthy)
AliasLookup(a) ==
    IF a \in DOMAIN CLIENT_ALIASES THEN Some(CLIENT_ALIASES[a])
    ELSE IF a \in ObjectPrototypeKeys THEN Some("function Object() { [native code] }")
    ELSE None

\* index.ts:100-101; the empty string is falsy, so sourceName is null for it
SourceArg(a) == IF IsSome(a.source) THEN Some(ToLowerCase(Val(a.source))) ELSE None
SourceName(a) ==
    IF IsSome(SourceArg(a)) /\ Val(SourceArg(a)) # ""
    THEN AliasLookup(Val(SourceArg(a)))
    ELSE None

\* index.ts:130
existingClients(cs) == SelectSeq(cs, LAMBDA c : c.exists /\ IsSome(c.config))

\* the sync loop iterating every descriptor
SyncTargetsAllClients(cs) == cs

\* index.ts:188: the list the sync loop iterates
SyncTargets(cs) == existingClients(cs)

\* source-of-truth mode that also merges in what the other clients hold
SelectSourceAdditive(sourceClient, cs) ==
    mergeConfigs(<<sourceClient>> \o cs).mcpServers

\* index.ts:174: { mcpServers: { ...sourceClient.config!.mcpServers } }
SelectSource(sourceClient, cs) == Val(ConfigServers(sourceClient))

\* the write guard without the dry-run test
ShouldWriteIgnoringDryRun(dryRun, hasChanges) == hasChanges

\* index.ts:214
ShouldWrite(dryRun, hasChanges) == ~dryRun /\ hasChanges

\* what readFileSync / writeFileSync of the write phase may do
IoOutcomes == {"ok", "EACCES"}

Exit(code) ==
    /\ pc' = "exited"
    /\ exitCode' = Some(code)

\* an exception nobody catches ends the process with code 1
Crash(what) ==
    /\ Exit(1)
    /\ stderr' = Append(stderr, <<"Uncaught", what>>)

\* index.ts:97-107
Validate ==
    /\ pc = "start"
    /\ IF IsSome(SourceArg(argv)) /\ Val(SourceArg(argv)) # "" /\ ~IsSome(SourceName(argv))
       THEN /\ Exit(1)
            /\ stderr' = Append(stderr, <<"Unknown source", Val(SourceArg(argv))>>)
       ELSE /\ pc' = "discover"
            /\ UNCHANGED <<exitCode, stderr>>
    /\ UNCHANGED <<fs, fs0, argv, clients, merged, idx, warnings, reports,
                   written, runNo, prevExit>>

\* the run going on with no configuration at all
NoConfigsFoundIgnored(cs) == FALSE

\* index.ts:133
NoConfigsFound(cs) == Len(existingClients(cs)) = 0

\* the warnings the adapters print for files that do not parse
ParseWarnings(cs) ==
    [i \in DOMAIN SelectSeq(cs, LAMBDA c : c.exists /\ ~IsSome(c.config)) |->
        <<"Warning: Failed to parse",
          SelectSeq(cs, LAMBDA c : c.exists /\ ~IsSome(c.config))[i].path>>]

\* index.ts:119-143
Discover ==
    /\ pc = "discover"
    /\ clients' = ReadClients(fs)
    /\ IF NoConfigsFound(clients')
       THEN Exit(1)
       ELSE /\ pc' = "list"
            /\ UNCHANGED exitCode
    /\ stderr' = stderr \o ParseWarnings(clients')
    /\ UNCHANGED <<fs, fs0, argv, merged, idx, warnings, reports, written,
                   runNo, prevExit>>

\* index.ts:145-161: Object.keys(client.config!.mcpServers) throws when the
\* parsed JSON has no mcpServers object
ListFound ==
    /\ pc = "list"
    /\ IF \E i \in DOMAIN existingClients(clients) :
            ~IsSome(ConfigServers(existingClients(clients)[i]))
       THEN Crash("TypeError: Object.keys")
       ELSE /\ pc' = "merge"
            /\ UNCHANGED <<exitCode, stderr>>
    /\ UNCHANGED <<fs, fs0, argv, clients, merged, idx, warnings, reports,
                   written, runNo, prevExit>>

\* index.ts:163-184
Merge ==
    /\ pc = "merge"
    /\ IF IsSome(SourceName(argv))
       THEN LET found == SelectSeq(existingClients(clients),
                                   LAMBDA cl : cl.name = Val(SourceName(argv)))
            IN IF Len(found) = 0
               THEN /\ Exit(1)
                    /\ stderr' = Append(stderr, <<"Source not found", Val(SourceName(argv))>>)
                    /\ UNCHANGED <<merged, warnings, idx>>
               ELSE /\ merged' = Some(SelectSource(found[1], existingClients(clients)))
                    /\ pc' = "sync"
                    /\ idx' = 1
                    /\ UNCHANGED <<exitCode, stderr, warnings>>
       ELSE /\ merged' = Some(mergeConfigs(existingClients(clients)).mcpServers)
            /\ warnings' = mergeConfigs(existingClients(clients)).warnings
            /\ pc' = "sync"
            /\ idx' = 1
            /\ UNCHANGED <<exitCode, stderr>>
    /\ UNCHANGED <<fs, fs0, argv, clients, reports, written, runNo, prevExit>>

\* index.ts:188-231, one iteration
SyncClient ==
    /\ pc = "sync"
    /\ idx <= Len(SyncTargets(clients))
    /\ LET client == SyncTargets(clients)[idx]
           r == Report(client, Val(merged))
           hasChanges == Len(r.added) > 0 \/ Len(r.removed) > 0
       IN /\ reports' = Append(reports, r)
          /\ IF ~ShouldWrite(argv.dryRun, hasChanges)
             THEN /\ idx' = idx + 1
                  /\ UNCHANGED <<fs, written, pc, exitCode, stderr>>
             ELSE IF ~fs[client.path].exists
             THEN /\ Crash("ENOENT: readFileSync")
                  /\ UNCHANGED <<fs, written, idx>>
             ELSE LET out == Serialize(client, Val(merged), fs[client.path].doc)
                  IN IF out.threw
                     THEN /\ Crash("serialize")
                          /\ UNCHANGED <<fs, written, idx>>
                     ELSE \E io \in IoOutcomes :
                            IF io # "ok"
                            THEN /\ Crash(io)
                                 /\ UNCHANGED <<fs, written, idx>>
                            ELSE /\ fs' = [fs EXCEPT ![client.path] = Printed(out.doc)]
                                 /\ written' = Append(written, client.path)
                                 /\ idx' = idx + 1
                                 /\ UNCHANGED <<pc, exitCode, stderr>>
    /\ UNCHANGED <<fs0, argv, clients, merged, warnings, runNo, prevExit>>

\* index.ts:233: the loop is over, run returns and the process exits with 0
Finish ==
    /\ pc = "sync"
    /\ idx > Len(SyncTargets(clients))
    /\ Exit(0)
    /\ UNCHANGED <<fs, fs0, argv, clients, merged, idx, warnings, reports,
                   stderr, written, runNo, prevExit>>

\* the user invokes the program again, with the same arguments
Rerun ==
    /\ pc = "exited"
    /\ runNo < MaxRuns
    /\ pc' = "start"
    /\ runNo' = runNo + 1
    /\ prevExit' = exitCode
    /\ fs0' = fs
    /\ clients' = <<>>
    /\ merged' = None
    /\ idx' = 0
    /\ exitCode' = None
    /\ warnings' = <<>>
    /\ reports' = <<>>
    /\ stderr' = <<>>
    /\ written' = <<>>
    /\ UNCHANGED <<fs, argv>>

-----------------------------------------------------------------------------
(* Inputs of Spec: the files a project may hold when the program starts *)

\* texts of top-level string values
DarkText == JsonStringLiteral(<<"d", "a", "r", "k">>)
CommaBraceText == JsonStringLiteral(<<"a", ",", " ", "}">>)

NpxX == Srv(Some("npx"), Some(<<"x">>), None)
NpxY == Srv(Some("npx"), Some(<<"y">>), None)
NpxEnv == Srv(Some("npx"), None, Some(EnvAB))
EmptyCommand == Srv(Some(""), None, None)
NoCommand == Srv(None, None, None)

\* documents of a plain-JSON client
PlainDocs ==
    { JsonDoc(FALSE, {}, None),                               \* not JSON
      JsonDoc(TRUE, {TopKey("other", DarkText)}, None),       \* no mcpServers key
      JsonDoc(TRUE, {}, Some(<<>>)),
      JsonDoc(TRUE, {}, Some(<<Entry("a", NpxX)>>)),
      JsonDoc(TRUE, {}, Some(<<Entry("a", NpxY)>>)),
      JsonDoc(TRUE, {TopKey("other", DarkText)}, Some(<<Entry("b", NpxEnv)>>)),
      JsonDoc(TRUE, {}, Some(<<Entry("a", NpxX), Entry("b", NpxY)>>)),
      JsonDoc(TRUE, {}, Some(<<Entry("constructor", NpxX)>>)),
      JsonDoc(TRUE, {}, Some(<<Entry("a", EmptyCommand)>>)),
      JsonDoc(TRUE, {}, Some(<<Entry("a", NoCommand)>>)) }

\* the clients after the first two get fewer documents
FewPlainDocs ==
    { JsonDoc(FALSE, {}, None),
      JsonDoc(TRUE, {}, Some(<<>>)),
      JsonDoc(TRUE, {}, Some(<<Entry("b", NpxY)>>)) }

GeminiDocs ==
    { JsonDoc(FALSE, {}, None),
      JsonDoc(TRUE, {TopKey("theme", DarkText)}, None),
      JsonDoc(TRUE, {TopKey("theme", CommaBraceText)}, Some(<<>>)),
      JsonDoc(TRUE, {TopKey("theme", DarkText)}, Some(<<Entry("a", NpxX)>>)),
      JsonDoc(TRUE, {}, Some(<<Entry("b", NpxY)>>)) }

CodexDocs ==
    { TomlDoc(<<>>),
      TomlDoc(<<TomlSection(FALSE, "profile", None, None, None)>>),
      TomlDoc(<<TomlSection(TRUE, "a", Some("npx"), Some(<<"x">>), None),
                TomlSection(FALSE, "profile", None, None, None)>>),
      TomlDoc(<<TomlSection(TRUE, "b", Some("npx"), None, Some(EnvAB))>>),
      TomlDoc(<<TomlSection(TRUE, "c", None, Some(<<"x">>), None)>>) }

OpenCodeDocs ==
    { OpenCodeDoc(FALSE, {}, None),
      OpenCodeDoc(TRUE, {TopKey("theme", DarkText)}, None),
      OpenCodeDoc(TRUE, {TopKey("theme", CommaBraceText)}, Some(<<>>)),
      OpenCodeDoc(TRUE, {}, Some(<<Entry("a", OcEntry("local", None,
                                     Some(OcCommand(Some("npx"), <<"x">>)), None))>>)),
      OpenCodeDoc(TRUE, {}, Some(<<Entry("r", OcEntry("remote", None, None, None))>>)),
      OpenCodeDoc(TRUE, {}, Some(<<Entry("d", OcEntry("local", Some(FALSE),
                                     Some(OcCommand(Some("npx"), <<>>)), None)),
                                   Entry("r", OcEntry("remote", None, None, None))>>)),
      OpenCodeDoc(TRUE, {}, Some(<<Entry("a", OcEntry("local", None, None, None))>>)) }

\* the global fallback files
GlobalDocs ==
    { JsonDoc(FALSE, {}, None),
      JsonDoc(TRUE, {}, Some(<<Entry("b", NpxY)>>)) }

DocsAt(p) ==
    IF p \in {CursorPath, ClaudePath} THEN PlainDocs
    ELSE IF p \in {WindsurfGlobalPath, ClineGlobalPath} THEN GlobalDocs
    ELSE IF p \in PlainPaths THEN FewPlainDocs
    ELSE IF p = GeminiPath THEN GeminiDocs
    ELSE IF p = CodexPath THEN CodexDocs
    ELSE OpenCodeDocs

\* the file systems F extended with every choice of a document at each path of P
RECURSIVE Extend(_, _)
Extend(F, P) ==
    IF P = {} THEN F
    ELSE LET p == CHOOSE q \in P : TRUE
         IN Extend({[f EXCEPT ![p] = File(d)] : f \in F, d \in DocsAt(p)}, P \ {p})

FileSystems ==
    UNION {Extend({[p \in Paths |-> NoFile(p)]}, P) :
             P \in {Q \in SUBSET Paths : Cardinality(Q) <= MaxFiles}}

Sources == {None, Some("Cursor"), Some("codex"), Some("vscode"), Some("constructor"), Some("")}

\* the command lines: --dry-run is combined with no source and with the
\* recognized ones
CommandLines ==
    [dryRun : {FALSE}, source : Sources]
    \cup [dryRun : {TRUE}, source : {None, Some("Cursor"), Some("codex")}]

Init ==
    /\ fs \in FileSystems
    /\ fs0 = fs
    /\ argv \in CommandLines
    /\ pc = "start"
    /\ clients = <<>>
    /\ merged = None
    /\ idx = 0
    /\ exitCode = None
    /\ warnings = <<>>
    /\ reports = <<>>
    /\ stderr = <<>>
    /\ written = <<>>
    /\ runNo = 1
    /\ prevExit = None

Next ==
    \/ Validate
    \/ Discover
    \/ ListFound
    \/ Merge
    \/ SyncClient
    \/ Finish
    \/ Rerun

Spec == Init /\ [][Next]_vars

-----------------------------------------------------------------------------
(* SpecCodec: the serializers and readers of codex.ts and opencode.ts and   *)
(* parseJsonc called on bounded inputs, and the serializers' output read    *)
(* back.                                                                    *)

\* the characters of the strings: a letter, the separator of arrays and
\* inline tables, and a blank
CodecChars == {"a", ",", " "}
Strings(n) == SeqsUpTo(CodecChars, n)

CodecCommands == Strings(MaxStringLen) \ {<<>>}
CodecArgs == {None} \cup {Some(a) : a \in SeqsUpTo(Strings(1), MaxArgs)}
CodecEnvs ==
    {None, Some(<<>>), Some(<<<<<<"A">>, <<"1">>>>, <<<<"B">>, <<"2">>>>>>)}
    \cup {Some(<<<<<<"A">>, v>>>>) : v \in Strings(MaxStringLen)}

\* canonical mappings with strings given as sequences of characters
CodecMappings ==
    {<<Entry(<<"a">>, Srv(Some(c), a, e))>> :
        c \in CodecCommands, a \in CodecArgs, e \in CodecEnvs}
    \cup {<<Entry(<<"a">>, Srv(Some(<<"a">>), None, None)),
            Entry(<<"b">>, Srv(Some(c), None, None))>> : c \in CodecCommands}

\* lines of a Codex file
ModelLine == <<"model", " ", "=", " ", "\"", "o3", "\"">>
CommentLine == <<"#", " ", "note">>
ProfileHeader == <<"[", "profile", "]">>
NameLine == <<"name", " ", "=", " ", "\"", "x", "\"">>
EnabledLine == <<"enabled", " ", "=", " ", "true">>
OldHeader == <<"[", MCP_PREFIX, "old", "]">>
OldCommandLine == <<"command", " ", "=", " ", "\"", "npx", "\"">>
ToolsHeader == <<"[", "tools", "]">>
IndexHeader == <<"[", "1", "]">>
CommentedHeader == <<"[", "tools", "]", " ", "#", " ", "note">>

CodexContents ==
    { Join(lines, <<"\n">>) :
        lines \in { <<>>,
                    <<ProfileHeader, NameLine>>,
                    <<ModelLine, ProfileHeader, NameLine>>,
                    <<ProfileHeader, EnabledLine>>,
                    <<CommentLine, ProfileHeader, NameLine, <<>>, OldHeader, OldCommandLine>>,
                    <<OldHeader, OldCommandLine, <<>>, ProfileHeader, NameLine>>,
                    <<ProfileHeader, NameLine, <<>>, IndexHeader, NameLine>>,
                    <<ProfileHeader, NameLine, <<>>, CommentedHeader, NameLine>>,
                    <<ProfileHeader, NameLine, <<>>, OldHeader, OldCommandLine, <<>>,
                      ToolsHeader, NameLine, <<>>, ProfileHeader, EnabledLine>> } }

CodexCalls ==
    [fn : {"serializeCodexConfig"}, config : CodecMappings, existing : {<<>>}]
    \cup [fn : {"serializeCodexConfig"},
          config : {<<>>, <<Entry(<<"a">>, Srv(Some(<<"a">>), Some(<<<<"a">>>>), None))>>},
          existing : CodexContents]

\* canonical mappings handed to serializeOpenCodeConfig
OpenCodeMappings ==
    {<<>>}
    \cup {<<Entry(n, d)>> : n \in {"a", "r"}, d \in {NpxX, NpxEnv, Srv(Some("npx"), None, None)}}
    \cup {<<Entry("a", NpxX), Entry("r", d)>> : d \in {NpxY, NpxEnv}}

OpenCodeCalls ==
    [fn : {"serializeOpenCodeConfig"}, config : OpenCodeMappings,
     existing : {d \in OpenCodeDocs : d.ok}]

\* the characters of the strings written into an OpenCode file: a letter,
\* the characters of the trailing-comma expression and of a comment opener,
\* and the escape character
JsonChars == {"a", ",", "]", "/", "\\"}
JsonStrings(n) == SeqsUpTo(JsonChars, n)

OcArgs ==
    {None, Some(<<>>)}
    \cup {Some(<<s>>) : s \in JsonStrings(MaxStringLen)}
    \cup {Some(<<s, t>>) : s \in JsonStrings(1), t \in JsonStrings(1)}
OcEnvs ==
    {None, Some(<<>>), Some(<<<<<<"A">>, <<"1">>>>, <<<<"B">>, <<"2">>>>>>),
     Some(<<<<<<"A">>, <<",", "]">>>>>>)}

\* canonical mappings handed to serializeOpenCodeConfig on texts
OcTextMappings ==
    {<<Entry(<<"a">>, Srv(Some(c), a, e))>> :
        c \in JsonStrings(MaxStringLen) \ {<<>>}, a \in OcArgs, e \in OcEnvs}
    \cup {<<Entry(<<"a">>, Srv(Some(<<"a">>), None, None)),
            Entry(n, Srv(Some(<<"a">>), Some(<<<<"a">>>>), None))>> :
              n \in {<<"b">>, <<"r">>, <<"1">>, ProtoKey}}

\* texts of an OpenCode file
OcEmptyText == <<"{", "}">>
OcCommentedText ==
    Join(<< <<"{">>,
            <<" ", "/", "/", " ", "note">>,
            <<" ", "\"", "theme", "\"", ":", " ", "\"", "dark", "\"", ",">>,
            <<" ", "/", "*", " ", "servers", " ", "*", "/">>,
            <<" ", "\"", "mcp", "\"", ":", " ", "{">>,
            <<" ", " ", "\"", "r", "\"", ":", " ", "{", "\"", "type", "\"", ":", " ",
              "\"", "remote", "\"", ",", " ", "\"", "url", "\"", ":", " ", "\"", "u", "\"", "}", ",">>,
            <<" ", " ", "\"", "d", "\"", ":", " ", "{", "\"", "type", "\"", ":", " ",
              "\"", "local", "\"", ",", " ", "\"", "command", "\"", ":", " ", "[", "\"", "npx", "\"", "]", ",",
              " ", "\"", "enabled", "\"", ":", " ", "false", "}", ",">>,
            <<" ", "}", ",">>,
            <<"}">> >>,
         <<"\n">>)

OcTextCalls ==
    [fn : {"serializeOpenCodeContent"}, config : OcTextMappings, existing : {OcEmptyText}]
    \cup [fn : {"serializeOpenCodeContent"},
          config : {<<>>, <<Entry(<<"a">>, Srv(Some(<<"a">>), Some(<<<<"a">>>>), None))>>,
                    <<Entry(<<"r">>, Srv(Some(<<"a">>), None, None))>>},
          existing : {OcCommentedText}]

\* entries of the mcp object of an OpenCode file
OcLocal(command, more) ==
    JsonObj(<<Entry(<<"type">>, JsonStr(<<"local">>)),
              Entry(<<"command">>, JsonArr([i \in DOMAIN command |-> JsonStr(command[i])]))>>
            \o more)
OcRemote == JsonObj(<<Entry(<<"type">>, JsonStr(<<"remote">>)), Entry(<<"url">>, JsonStr(<<"u">>))>>)
OcEntries ==
    { OcLocal(<<<<"npx">>>>, <<>>),
      OcLocal(<<<<"npx">>, <<"x">>, <<"y">>>>, <<>>),
      OcLocal(<<<<"npx">>, <<"x">>>>,
              <<Entry(<<"environment">>, JsonObj(<<Entry(<<"A">>, JsonStr(<<"1">>))>>))>>),
      OcLocal(<<<<"npx">>>>, <<Entry(<<"enabled">>, JsonLit("true"))>>),
      OcLocal(<<<<"npx">>>>, <<Entry(<<"enabled">>, JsonLit("false"))>>),
      OcLocal(<<>>, <<>>),
      JsonObj(<<Entry(<<"type">>, JsonStr(<<"local">>))>>),
      OcRemote }
OcNames == {<<"a">>, <<"b">>, ProtoKey}

\* the files getOpenCodeConfig is called on
OcFileTexts ==
    {OcEmptyText, OcCommentedText}
    \cup {JsonStringify(JsonObj(<<Entry(<<"mcp">>, JsonObj(<<Entry(n, e)>>))>>), 0) :
            n \in OcNames, e \in OcEntries}
    \cup {JsonStringify(JsonObj(<<Entry(<<"mcp">>,
                                         JsonObj(<<Entry(n[1], e1), Entry(n[2], e2)>>))>>), 0) :
            n \in {q \in OcNames \X OcNames : q[1] # q[2]}, e1 \in OcEntries, e2 \in OcEntries}

OcReadCalls == [fn : {"getOpenCodeConfig"}, config : {<<>>}, existing : OcFileTexts]

\* the characters of the texts given to parseJsonc: those the comment
\* scanner looks at, and those of JSON arrays of strings
CommentChars == {"\"", "\\", "/", "*", "\n", "a"}
ArrayChars == {"[", "]", "\"", ",", "\\", "/"}

\* longer JSON texts: strings that hold comment openers, after a string that
\* ends in a backslash and without one
JsonSamples ==
    { JsonStringify(JsonArr(<<JsonStr(s), JsonStr(t)>>), 0) :
        s \in {<<"a">>, <<"\\">>, <<"a", "\"">>},
        t \in {<<"/", "/">>, <<"/", "*">>, <<"h", ":", "/", "/", "x">>} }

JsoncTexts ==
    SeqsUpTo(CommentChars, MaxTextLen)
    \cup {t \in SeqsUpTo(ArrayChars, MaxTextLen) : IsSome(JsonParse(t))}
    \cup JsonSamples
    \cup {OcCommentedText}

JsoncCalls == [fn : {"parseJsonc"}, config : {<<>>}, existing : JsoncTexts]

InitCodec ==
    /\ pc = "call"
    /\ \E call \in CodexCalls \cup OpenCodeCalls \cup OcTextCalls \cup OcReadCalls
                    \cup JsoncCalls :
          /\ argv = [fn |-> call.fn]
          /\ merged = Some(call.config)
          /\ fs = call.existing
    /\ fs0 = fs
    /\ clients = <<>>
    /\ idx = 0
    /\ exitCode = None
    /\ warnings = <<>>
    /\ reports = <<>>
    /\ stderr = <<>>
    /\ written = <<>>
    /\ runNo = 0
    /\ prevExit = None

\* serializeCodexConfig(config, existingContent)
UnitSerializeCodex ==
    /\ pc = "call"
    /\ argv.fn = "serializeCodexConfig"
    /\ reports' = <<serializeCodexContent(Val(merged), fs)>>
    /\ pc' = "serialized"
    /\ UNCHANGED <<fs, fs0, argv, clients, merged, idx, exitCode, warnings,
                   stderr, written, runNo, prevExit>>

\* getCodexConfig on the file that holds the serializer's output
UnitReadCodex ==
    /\ pc = "serialized"
    /\ argv.fn = "serializeCodexConfig"
    /\ reports' = Append(reports, readCodexContent(reports[1]))
    /\ pc' = "reread"
    /\ UNCHANGED <<fs, fs0, argv, clients, merged, idx, exitCode, warnings,
                   stderr, written, runNo, prevExit>>

\* serializeOpenCodeConfig(config, existingContent)
UnitSerializeOpenCode ==
    /\ pc = "call"
    /\ argv.fn = "serializeOpenCodeConfig"
    /\ reports' = <<serializeOpenCodeConfig(Val(merged), fs)>>
    /\ pc' = "serialized"
    /\ UNCHANGED <<fs, fs0, argv, clients, merged, idx, exitCode, warnings,
                   stderr, written, runNo, prevExit>>

\* serializeOpenCodeConfig(config, existingContent) on the text of the file
UnitSerializeOpenCodeText ==
    /\ pc = "call"
    /\ argv.fn = "serializeOpenCodeContent"
    /\ reports' = <<serializeOpenCodeContent(Val(merged), fs)>>
    /\ pc' = "serialized"
    /\ UNCHANGED <<fs, fs0, argv, clients, merged, idx, exitCode, warnings,
                   stderr, written, runNo, prevExit>>

\* getOpenCodeConfig on the file that holds the serializer's output
UnitReadOpenCode ==
    /\ pc = "serialized"
    /\ argv.fn = "serializeOpenCodeContent"
    /\ ~reports[1].threw
    /\ reports' = Append(reports, readOpenCodeContent(reports[1].text))
    /\ pc' = "reread"
    /\ UNCHANGED <<fs, fs0, argv, clients, merged, idx, exitCode, warnings,
                   stderr, written, runNo, prevExit>>

\* getOpenCodeConfig on a file
UnitGetOpenCode ==
    /\ pc = "call"
    /\ argv.fn = "getOpenCodeConfig"
    /\ reports' = <<readOpenCodeContent(fs)>>
    /\ pc' = "read"
    /\ UNCHANGED <<fs, fs0, argv, clients, merged, idx, exitCode, warnings,
                   stderr, written, runNo, prevExit>>

\* parseJsonc(content): the text after the scanning loop, and the value
UnitParseJsonc ==
    /\ pc = "call"
    /\ argv.fn = "parseJsonc"
    /\ reports' = <<StripComments(fs, 1, FALSE, <<>>), parseJsonc(fs)>>
    /\ pc' = "parsed"
    /\ UNCHANGED <<fs, fs0, argv, clients, merged, idx, exitCode, warnings,
                   stderr, written, runNo, prevExit>>

NextCodec ==
    \/ UnitSerializeCodex
    \/ UnitReadCodex
    \/ UnitSerializeOpenCode
    \/ UnitSerializeOpenCodeText
    \/ UnitReadOpenCode
    \/ UnitGetOpenCode
    \/ UnitParseJsonc

SpecCodec == InitCodec /\ [][NextCodec]_vars

-----------------------------------------------------------------------------
(* Properties of merge.ts, checked under SpecMerge *)

\* Equality of two server definitions as the specification defines it: same
\* command, same args sequence (absent = empty), same env content whatever
\* the key order (absent = empty).
StructurallyEqual(a, b) ==
    /\ a.command = b.command
    /\ OrElse(a.args, <<>>) = OrElse(b.args, <<>>)
    /\ Range(OrElse(a.env, <<>>)) = Range(OrElse(b.env, <<>>))

Defines(c, n) == IsSome(ConfigServers(c)) /\ HasOwn(Val(ConfigServers(c)), n)
DefOf(c, n) == Get(Val(ConfigServers(c)), n)
Definers(cs, n) == {i \in DOMAIN cs : Defines(cs[i], n)}
FirstDefiner(cs, n) == CHOOSE i \in Definers(cs, n) : \A j \in Definers(cs, n) : i <= j
AllNames(cs) ==
    UNION {KeySet(Val(ConfigServers(cs[i]))) :
             i \in {k \in DOMAIN cs : IsSome(ConfigServers(cs[k]))}}
Count(s, x) == Cardinality({k \in DOMAIN s : s[k] = x})

\* C1: for every server name that two or more sources define with differing
\* definitions, the merged mapping holds the definition of the earliest source
\* that defines the name, unchanged.
C1_FirstOccurrenceWins ==
    pc = "merged" =>
        \A n \in AllNames(clients) :
            (\E i, j \in Definers(clients, n) :
                ~StructurallyEqual(DefOf(clients[i], n), DefOf(clients[j], n)))
            => /\ HasOwn(Val(merged), n)
               /\ Get(Val(merged), n) = DefOf(clients[FirstDefiner(clients, n)], n)

\* C2: the key set of the merged mapping is exactly the union of the server
\* names of the inputs with a config, for every server name, and a name that
\* exactly one source defines maps to that source's definition.
C2_KeySetIsUnion ==
    pc = "merged" =>
        /\ KeySet(Val(merged)) = AllNames(clients)
        /\ \A n \in AllNames(clients) :
              Cardinality(Definers(clients, n)) = 1
              => /\ HasOwn(Val(merged), n)
                 /\ StructurallyEqual(Get(Val(merged), n),
                                      DefOf(clients[FirstDefiner(clients, n)], n))

\* C3: for a name already in the accumulator, a conflict warning naming it is
\* emitted if and only if the later definition is structurally unequal to the
\* one kept; the name has exactly one entry in the result.
C3_WarningIffStructurallyUnequal ==
    pc = "merged" =>
        \A n \in KeySet(Val(merged)) :
            /\ Count(Keys(Val(merged)), n) = 1
            /\ Count(warnings, n) =
                 Cardinality({j \in Definers(clients, n) :
                    /\ j # FirstDefiner(clients, n)
                    /\ ~StructurallyEqual(DefOf(clients[j], n),
                                          DefOf(clients[FirstDefiner(clients, n)], n))})

\* C4: getChanges returns added = merged names absent from the client and
\* removed = client names absent from merged (no names for a null config);
\* the two lists are disjoint, and both are empty exactly when the two name
\* sets are equal.
C4_GetChangesIsSetDifference ==
    pc = "diffed" =>
        LET r == reports[1]
            current == IF IsSome(ConfigServers(r.client))
                       THEN KeySet(Val(ConfigServers(r.client))) ELSE {}
            names == KeySet(r.merged)
        IN /\ Range(r.added) = names \ current
           /\ Range(r.removed) = current \ names
           /\ Len(r.added) = Cardinality(Range(r.added))
           /\ Len(r.removed) = Cardinality(Range(r.removed))
           /\ Range(r.added) \cap Range(r.removed) = {}
           /\ (Len(r.added) = 0 /\ Len(r.removed) = 0) <=> (current = names)

C4_Witness ==
    /\ pc = "diffed"
    /\ Len(reports[1].added) > 0
    /\ Len(reports[1].removed) > 0

-----------------------------------------------------------------------------
(* Properties of a run, checked under Spec *)

DefaultMode == ~IsSome(argv.source)
ExitedZero == pc = "exited" /\ exitCode = Some(0)

\* the descriptor positions of ReadClients
ClientIndex == 1..8

\* clients whose file existed and parsed when the run read it
Readable(c) == c.exists /\ IsSome(c.config)

\* the descriptor the adapter of the i-th client gives for the files as they are now
ReadAgain(i) == ReadClients(fs)[i]

\* names of the server entries a file holds: the entries of its MCP key, and
\* for Codex the prefixed sections that give a command
EntryNames(p, file) ==
    IF p = CodexPath
    THEN {file.doc.sections[i].name :
            i \in {k \in DOMAIN file.doc.sections :
                     file.doc.sections[k].mcp /\ IsSome(file.doc.sections[k].command)}}
    ELSE IF p = OpenCodePath THEN KeySet(OrElse(file.doc.mcp, <<>>))
    ELSE KeySet(OrElse(file.doc.mcpServers, <<>>))

\* C5: after a non-dry run that exits zero, the next run writes no file and
\* leaves every file byte-identical.
C5_SecondRunWritesNothing ==
    (runNo >= 2 /\ prevExit = Some(0) /\ ~argv.dryRun)
    => /\ written = <<>>
       /\ fs = fs0

\* C6: after a non-dry run in default merge mode that exits zero, every client
\* whose file existed and parsed has, when read again, exactly the merged names.
C6_EveryClientHoldsMerged ==
    (ExitedZero /\ ~argv.dryRun /\ DefaultMode)
    => \A i \in ClientIndex :
          Readable(clients[i])
          => /\ IsSome(ConfigServers(ReadAgain(i)))
             /\ KeySet(Val(ConfigServers(ReadAgain(i)))) = KeySet(Val(merged))

\* C7: in default merge mode every server entry present in a client's file
\* before the run is still present in that file after the run.
C7_NoServerRemoved ==
    DefaultMode => \A p \in Paths : EntryNames(p, fs0[p]) \subseteq EntryNames(p, fs[p])

\* C8: with --dry-run no file is created or modified, and the diffs are still
\* computed and reported, one per readable client.
C8_DryRunWritesNothing ==
    argv.dryRun
    => /\ fs = fs0
       /\ written = <<>>
       /\ ExitedZero
          => /\ Len(reports) = Len(existingClients(clients))
             /\ \A i \in DOMAIN reports :
                   /\ reports[i].client = existingClients(clients)[i]
                   /\ Range(reports[i].added)
                        = KeySet(Val(merged)) \ KeySet(Val(ConfigServers(reports[i].client)))
                   /\ Range(reports[i].removed)
                        = KeySet(Val(ConfigServers(reports[i].client))) \ KeySet(Val(merged))

C8_Witness ==
    /\ argv.dryRun
    /\ ExitedZero
    /\ \E i \in DOMAIN reports : Len(reports[i].added) > 0
    /\ \E i \in DOMAIN reports : Len(reports[i].removed) > 0

C10_SourceOfTruth ==
    (IsSome(SourceName(argv)) /\ pc \in {"sync", "exited"} /\ IsSome(merged))
    => LET x == CHOOSE i \in ClientIndex : clients[i].name = Val(SourceName(argv))
       IN /\ Readable(clients[x])
          /\ Val(merged) = Val(ConfigServers(clients[x]))
          /\ (ExitedZero /\ ~argv.dryRun)
             => \A i \in ClientIndex \ {x} :
                   Readable(clients[i])
                   => /\ IsSome(ConfigServers(ReadAgain(i)))
                      /\ KeySet(Val(ConfigServers(ReadAgain(i)))) = KeySet(Val(merged))

-----------------------------------------------------------------------------
(* Source selection and exit behaviour, checked under Spec *)

\* the --source value is one of the identifiers the program documents
RecognizedSource ==
    IsSome(argv.source) /\ ToLowerCase(Val(argv.source)) \in DOMAIN CLIENT_ALIASES
UnrecognizedSource == IsSome(argv.source) /\ ~RecognizedSource

\* the position of the selected client in the descriptor list
SourceIndex == CHOOSE i \in ClientIndex : clients[i].name = CLIENT_ALIASES[ToLowerCase(Val(argv.source))]

\* no client has a file that exists and parses when the run starts
NoUsableConfig == Len(SelectSeq(ReadClients(fs0), Readable)) = 0

\* the selected source is not among the readable clients
SourceMissing ==
    /\ IsSome(SourceName(argv))
    /\ \A i \in DOMAIN clients : Readable(clients[i]) => clients[i].name # Val(SourceName(argv))

StderrHas(tag) == \E k \in DOMAIN stderr : stderr[k][1] = tag

C12_UnknownSourceFailsFast ==
    (UnrecognizedSource /\ pc # "start")
    => /\ pc = "exited"
       /\ IsSome(exitCode) /\ exitCode # Some(0)
       /\ StderrHas("Unknown source")
       /\ clients = <<>>
       /\ written = <<>>
       /\ fs = fs0

\* C13: when the adapters have read the files and no client has a config file
\* that exists and parses, the run exits non-zero at once and writes no file.
C13_NoConfigsIsFatal ==
    (clients # <<>> /\ \A i \in DOMAIN clients : ~Readable(clients[i]))
    => /\ pc = "exited"
       /\ IsSome(exitCode) /\ exitCode # Some(0)
       /\ written = <<>>
       /\ fs = fs0

C13_Witness ==
    /\ clients # <<>>
    /\ \A i \in DOMAIN clients : ~Readable(clients[i])
    /\ ~IsSome(argv.source)
    /\ pc = "exited"
    /\ \E i \in DOMAIN clients : clients[i].exists /\ ~IsSome(clients[i].config)

C15_ErrorsNeverAbort ==
    (pc = "exited" /\ ~SourceMissing /\ \E i \in DOMAIN clients : Readable(clients[i]))
    => /\ exitCode = Some(0)
       /\ Len(reports) = Len(existingClients(clients))

\* C16: a run exits non-zero if and only if the --source value is not a
\* recognized client identifier or no client config is usable.
C16_ExitCodeIff ==
    pc = "exited" => ((exitCode # Some(0)) <=> (UnrecognizedSource \/ NoUsableConfig))

\* the string a top-level key holds: the characters between the quotes
TopValues(doc) == {[key |-> e.key, value |-> JsonParseString(e.text)] : e \in doc.top}

\* C17: every top-level key other than the MCP key that the Gemini CLI
\* settings file or the OpenCode config held when the run started is still
\* there with an equal value.
C17_TopLevelKeysPreserved ==
    \A p \in {GeminiPath, OpenCodePath} :
        (fs0[p].exists /\ fs0[p].doc.ok) => TopValues(fs0[p].doc) \subseteq TopValues(fs[p].doc)

-----------------------------------------------------------------------------
(* Properties of the serializers, checked under SpecCodec *)

\* what a TOML reader takes the text of a value for: a quoted string, an
\* array or an inline table as parseValue reads them, anything else a bare value
TomlMeaning(raw) ==
    IF \/ StartsWith(raw, "\"") /\ EndsWith(raw, "\"")
       \/ StartsWith(raw, "[") /\ EndsWith(raw, "]")
       \/ StartsWith(raw, "{") /\ EndsWith(raw, "}")
    THEN parseValue(raw)
    ELSE [kind |-> "bare", text |-> raw]

\* the key/value lines of a text that are not inside an mcp_servers.<name>
\* section, each as [section, key, value]; section <<>> is the top of the file
RECURSIVE KeyValueLines(_, _, _)
KeyValueLines(lines, section, found) ==
    IF Len(lines) = 0 THEN found
    ELSE LET line == Trim(Head(lines))
         IN IF Len(line) = 0 \/ StartsWith(line, "#")
            THEN KeyValueLines(Tail(lines), section, found)
            ELSE IF IsSome(SectionMatch(line))
            THEN KeyValueLines(Tail(lines), Val(SectionMatch(line)), found)
            ELSE IF StartsWith(section, MCP_PREFIX) \/ ~IsSome(KeyValueMatch(line))
            THEN KeyValueLines(Tail(lines), section, found)
            ELSE KeyValueLines(Tail(lines), section,
                    found \cup {[section |-> section,
                                 key |-> Val(KeyValueMatch(line))[1],
                                 value |-> TomlMeaning(Trim(Val(KeyValueMatch(line))[2]))]})

NonMcpContent(content) == KeyValueLines(Split(content, "\n"), <<>>, {})

\* C18: every key/value line of the existing Codex content that is not inside
\* an mcp_servers.<name> section is in the output of serializeCodexConfig with
\* the same key, the same value and the same section.
C18_CodexNonMcpPreserved ==
    (argv.fn = "serializeCodexConfig" /\ pc # "call")
    => NonMcpContent(fs) \subseteq NonMcpContent(reports[1])

\* C19: the output of serializeOpenCodeConfig holds every remote entry of the
\* existing mcp object under its name with an equal value, and every merged
\* server as a local entry whose command array is [command, ...args].
C19_OpenCodeRemotePreserved ==
    (argv.fn = "serializeOpenCodeConfig" /\ pc = "serialized" /\ ~reports[1].threw)
    => LET out == Val(reports[1].doc.mcp)
           existing == OrElse(fs.mcp, <<>>)
           m == Val(merged)
       IN /\ \A i \in DOMAIN existing :
                existing[i].server.type = "remote"
                => /\ HasOwn(out, existing[i].name)
                   /\ Get(out, existing[i].name) = existing[i].server
          /\ \A i \in DOMAIN m :
                /\ HasOwn(out, m[i].name)
                /\ Get(out, m[i].name).type = "local"
                /\ Get(out, m[i].name).command
                     = Some(OcCommand(m[i].server.command, OrElse(m[i].server.args, <<>>)))

\* C20: writing a canonical mapping with serializeCodexConfig and reading the
\* result back as getCodexConfig does gives the same names, and for each name
\* the same command, the same args in the same order and the same env content.
C20_CodexRoundTrip ==
    (argv.fn = "serializeCodexConfig" /\ pc = "reread")
    => /\ Keys(reports[2]) = Keys(Val(merged))
       /\ \A n \in KeySet(Val(merged)) :
             StructurallyEqual(Get(reports[2], n), Get(Val(merged), n))

\* C21: writing a canonical mapping with serializeOpenCodeConfig and reading
\* the result back as getOpenCodeConfig does gives a mapping with the same
\* names, and for each name the same command, the same args in the same
\* order and the same env content (absent args or env equal to empty).
C21_OpenCodeRoundTrip ==
    (argv.fn = "serializeOpenCodeContent" /\ pc = "reread")
    => /\ IsSome(reports[2])
       /\ KeySet(Val(reports[2])) = KeySet(Val(merged))
       /\ \A n \in KeySet(Val(merged)) :
             StructurallyEqual(Get(Val(reports[2]), n), Get(Val(merged), n))

\* the table header a TOML reader finds on a line: the name between the
\* brackets, when nothing or a comment follows the closing bracket
TomlHeader(line) ==
    LET close == NextIn(line, 2, {"]"})
        rest == Trim(SubSeq(line, close + 1, Len(line)))
    IN IF /\ StartsWith(line, "[") /\ close <= Len(line) /\ close > 2
          /\ (Len(rest) = 0 \/ StartsWith(rest, "#"))
       THEN Some(SubSeq(line, 2, close - 1))
       ELSE None

\* the names of the sections of a text in the order of their first header
RECURSIVE SectionNames(_, _)
SectionNames(lines, names) ==
    IF Len(lines) = 0 THEN names
    ELSE LET header == TomlHeader(Trim(Head(lines)))
         IN SectionNames(Tail(lines),
                         IF IsSome(header) /\ Val(header) \notin Range(names)
                         THEN Append(names, Val(header))
                         ELSE names)

\* every header of a text, in order
RECURSIVE SectionHeaders(_)
SectionHeaders(lines) ==
    IF Len(lines) = 0 THEN <<>>
    ELSE (IF IsSome(TomlHeader(Trim(Head(lines)))) THEN <<Val(TomlHeader(Trim(Head(lines))))>>
          ELSE <<>>)
         \o SectionHeaders(Tail(lines))

\* C26: the sections of the output of serializeCodexConfig are the sections
\* of the existing content that do not carry the prefix, in their original
\* order, followed by one mcp_servers.<name> section per server of the merged
\* mapping; no other section carries the prefix.
C26_CodexSectionOrder ==
    (argv.fn = "serializeCodexConfig" /\ pc # "call")
    => SectionHeaders(Split(reports[1], "\n"))
         = SelectSeq(SectionNames(Split(fs, "\n"), <<>>),
                     LAMBDA name : ~StartsWith(name, MCP_PREFIX))
           \o [i \in DOMAIN Val(merged) |-> <<MCP_PREFIX>> \o Val(merged)[i].name]

\* the entries of the mcp object of an OpenCode file
McpEntries(content) ==
    LET Items(parsed) ==
            IF IsSome(parsed) /\ IsSome(Field(Val(parsed), <<"mcp">>))
               /\ Val(Field(Val(parsed), <<"mcp">>)).kind = "object"
            THEN Val(Field(Val(parsed), <<"mcp">>)).items
            ELSE <<>>
    IN Items(parseJsonc(content))

\* the entry is typed local and is not disabled
LocalEnabled(entry) ==
    /\ Field(entry, <<"type">>) = Some(JsonStr(<<"local">>))
    /\ Field(entry, <<"enabled">>) # Some(JsonLit("false"))

\* C25: the mapping getOpenCodeConfig returns has exactly the names of the
\* entries of the mcp object that are typed local and not disabled; for each
\* of them command is the first element of its command array, args the
\* remaining elements in order (absent when there are none) and env its
\* environment map.
C25_OpenCodeLifting ==
    (argv.fn = "getOpenCodeConfig" /\ pc = "read" /\ IsSome(reports[1]))
    => LET Lifted(entries, m) ==
               LET lifted == {i \in DOMAIN entries : LocalEnabled(entries[i].server)}
               IN /\ KeySet(m) = {entries[i].name : i \in lifted}
                  /\ \A i \in lifted :
                        LET command == Val(Field(entries[i].server, <<"command">>)).items
                            environment == Field(entries[i].server, <<"environment">>)
                            server == Get(m, entries[i].name)
                        IN /\ server.command = StringOf(command, 1)
                           /\ server.args =
                                 IF Len(command) > 1
                                 THEN Some([k \in 1..(Len(command) - 1) |-> command[k + 1].str])
                                 ELSE None
                           /\ server.env =
                                 IF IsSome(environment)
                                 THEN Some([k \in DOMAIN Val(environment).items |->
                                              <<Val(environment).items[k].name,
                                                Val(environment).items[k].server.str>>])
                                 ELSE None
       IN Lifted(McpEntries(fs), Val(reports[1]))

\* A text without its comments, as JSONC defines them: outside a string
\* literal // opens a comment that runs up to the line terminator and /*
\* one that runs through the next */ or to the end of the text; a quote
\* outside a literal opens a literal, which runs to the first quote that no
\* backslash escapes; inside a literal a backslash escapes the character
\* after it.
RECURSIVE WithoutComments(_, _, _)
WithoutComments(text, i, inString) ==
    IF i > Len(text) THEN <<>>
    ELSE IF inString
    THEN IF text[i] = "\\" /\ i < Len(text)
         THEN <<text[i], text[i + 1]>> \o WithoutComments(text, i + 2, TRUE)
         ELSE <<text[i]>> \o WithoutComments(text, i + 1, text[i] # "\"")
    ELSE IF text[i] = "\"" THEN <<text[i]>> \o WithoutComments(text, i + 1, TRUE)
    ELSE IF text[i] = "/" /\ i < Len(text) /\ text[i + 1] = "/"
    THEN WithoutComments(text, NextIn(text, i, {"\n", "\r"}), FALSE)
    ELSE IF text[i] = "/" /\ i < Len(text) /\ text[i + 1] = "*"
    THEN IF \E j \in (i + 2)..(Len(text) - 1) : text[j] = "*" /\ text[j + 1] = "/"
         THEN WithoutComments(
                text,
                2 + CHOOSE j \in (i + 2)..(Len(text) - 1) :
                        /\ text[j] = "*" /\ text[j + 1] = "/"
                        /\ \A k \in (i + 2)..(j - 1) : ~(text[k] = "*" /\ text[k + 1] = "/"),
                FALSE)
         ELSE <<>>
    ELSE <<text[i]>> \o WithoutComments(text, i + 1, FALSE)

\* C27: the scanning loop of parseJsonc returns the text without its // and
\* /* */ comments: comments that start outside a string literal are removed,
\* the terminator of a line comment stays, an unclosed block comment removes
\* the rest of the text, and nothing inside a string literal, which ends at
\* the first quote that is not escaped, is taken for a comment.
C27_CommentsStripped ==
    (argv.fn = "parseJsonc" /\ pc = "parsed")
    => reports[1] = WithoutComments(fs, 1, FALSE)

\* C28: on a text that JSON.parse accepts, parseJsonc does not throw and
\* returns the value JSON.parse returns.
C28_ConservativeExtension ==
    (argv.fn = "parseJsonc" /\ pc = "parsed" /\ IsSome(JsonParse(fs)))
    => reports[2] = JsonParse(fs)

-----------------------------------------------------------------------------
(* Properties of the parsed mappings and of the write step, checked under Spec *)

\* every server of the mapping has a command that is a non-empty string
AllCommandsNonEmpty(m) == \A i \in DOMAIN m : Truthy(m[i].server.command)

\* C22: every server in the canonical mapping of a parsed descriptor has a
\* non-empty string command, and so has every server of the merged mapping
\* and of every JSON file the run wrote.
C22_CommandNonEmpty ==
    /\ \A i \in DOMAIN clients :
          IsSome(ConfigServers(clients[i]))
          => AllCommandsNonEmpty(Val(ConfigServers(clients[i])))
    /\ IsSome(merged) => AllCommandsNonEmpty(Val(merged))
    /\ \A p \in Range(written) \cap (PlainPaths \cup {GeminiPath}) :
          AllCommandsNonEmpty(OrElse(fs[p].doc.mcpServers, <<>>))

\* the diff getChanges returned for the client is not empty
HasChanges(r) == Len(r.added) > 0 \/ Len(r.removed) > 0

\* C23: in a run without --dry-run, the file of every client getChanges was
\* called for is written if and only if the returned added or removed list
\* is non-empty; a client with an empty diff keeps its file as it was, a
\* same-named definition that differs from the merged one included.
C23_WrittenIffChanged ==
    ~argv.dryRun
    => \A k \in DOMAIN reports :
          /\ HasChanges(reports[k]) <=> reports[k].client.path \in Range(written)
          /\ ~HasChanges(reports[k])
             => fs[reports[k].client.path] = fs0[reports[k].client.path]

\* C24: after a run without --dry-run the file of a plain-JSON client is
\* either as it was when the run started or exactly the printed JSON of
\* {mcpServers: merged}; a written file holds the merged definition for
\* every name it held before and none of its other top-level keys.
C24_PlainJsonOverwrite ==
    ~argv.dryRun
    => \A p \in PlainPaths :
          /\ fs[p] = fs0[p] \/ fs[p] = Printed(JsonDoc(TRUE, {}, merged))
          /\ p \in Range(written)
             => /\ fs[p].doc.top = {}
                /\ KeySet(Val(fs[p].doc.mcpServers)) = KeySet(Val(merged))
                /\ \A n \in KeySet(OrElse(fs0[p].doc.mcpServers, <<>>)) \cap KeySet(Val(merged)) :
                      Get(Val(fs[p].doc.mcpServers), n) = Get(Val(merged), n)

C24_Witness ==
    /\ ~argv.dryRun
    /\ ExitedZero
    /\ \E p \in PlainPaths \cap Range(written) :
          /\ fs0[p].doc.top # {}
          /\ \E n \in KeySet(OrElse(fs0[p].doc.mcpServers, <<>>)) \cap KeySet(Val(merged)) :
                Get(Val(fs0[p].doc.mcpServers), n) # Get(Val(merged), n)

====
